---- MODULE Spec2Model ----
(***************************************************************************)
(* Chatfield (Python): the conversation orchestration engine.              *)
(*   - the field name codec   (chatfield/interviewer.py, lines 32-139)     *)
(*   - the interview reducer  (chatfield/merge.py)                         *)
(*   - the Interviewer graph  (chatfield/interviewer.py, lines 222-994)    *)
(* Characters are represented by their Unicode code points, strings by     *)
(* sequences of code points.                                               *)
(***************************************************************************)
EXTENDS Integers, Sequences, FiniteSets, TLC

VARIABLES
    cphase,     \* codec run: "input", "encoded", "decoded"
    cname1,     \* first field name given to encode_field_name
    cname2,     \* second field name given to encode_field_name
    cn1,        \* number of chunks name1 was built from
    cn2,        \* number of chunks name2 was built from
    cenc1,      \* encode_field_name(cname1), once computed
    cenc2,      \* encode_field_name(cname2), once computed
    cdec1,      \* decode_field_name(cenc1), once computed
    mphase,     \* reducer run: "input", "merged"
    mta,        \* the class of the reducer's left Interview object
    mtb,        \* the class of the reducer's right Interview object
    ma,         \* the reducer's left snapshot (an Interview's _chatfield)
    mb,         \* the reducer's right snapshot
    mres,       \* merge_interviews(ma, mb), once computed
    tphase,     \* tools run: "input", "done"
    tiv,        \* the state's interview handed to the tools node
    tmsgs,      \* the message log handed to the tools node
    tres,       \* tools(tiv, tmsgs), once computed
    kphase,     \* lifecycle of one Interviewer: "input", "built", ...
    kcfg,       \* what the caller declares and passes to Interviewer(...)
    kres,       \* what construction and the first schemas produced
    xshared,    \* both Interviewers were given the same Interview object
    xobj,       \* the callers' Interview objects: object |-> field value
    xconv,      \* per thread: the conversation kept by its Interviewer
    sphase,     \* schema run: "input", "built"
    sfields,    \* interview._chatfield['fields'], in insertion order
    sschema,    \* the args_schema of the three tools, once built
    defn,       \* the field names of the caller's interview definition
    handle,     \* self.interview: the caller-visible interview (_chatfield)
    interview,  \* state['interview']
    messages,   \* state['messages']
    has_digested_confidentials,  \* state['has_digested_confidentials']
    has_digested_concludes,      \* state['has_digested_concludes']
    pc,         \* the node the graph runs next ("START" before the first go)
    call,       \* the caller's operation in progress: "none" or "go"
    resuming,   \* the pending listen was given a resume value by this go()
    resume,     \* the user_input of the go() in progress
    interrupts, \* the interrupts list of the go() in progress
    ret,        \* how the last go() ended: [kind, text]
    nLLM,       \* chat model invocations so far
    nConf,      \* executions of digest_confidentials so far
    nConcl      \* executions of digest_concludes so far

codecVars == <<cphase, cname1, cname2, cn1, cn2, cenc1, cenc2, cdec1>>

mergeVars == <<mphase, mta, mtb, ma, mb, mres>>

toolVars == <<tphase, tiv, tmsgs, tres>>

ctorVars == <<kphase, kcfg, kres>>

threadVars == <<xshared, xobj, xconv>>

schemaVars == <<sphase, sfields, sschema>>

convVars == <<defn, handle, interview, messages, has_digested_confidentials,
              has_digested_concludes, pc, call, resuming, resume, interrupts,
              ret, nLLM, nConf, nConcl>>

vars == <<cphase, cname1, cname2, cn1, cn2, cenc1, cenc2, cdec1,
          mphase, mta, mtb, ma, mb, mres, tphase, tiv, tmsgs, tres,
          kphase, kcfg, kres, xshared, xobj, xconv,
          sphase, sfields, sschema,
          defn, handle, interview, messages, has_digested_confidentials,
          has_digested_concludes, pc, call, resuming, resume, interrupts,
          ret, nLLM, nConf, nConcl>>

(***************************************************************************)
(* Field Name Codec                                                        *)
(***************************************************************************)

\* 'abcdefghijklmnopqrstuvwxyzABCDEFGHIJKLMNOPQRSTUVWXYZ0123456789_'
SafeChars == (97..122) \cup (65..90) \cup (48..57) \cup {95}

\* the digits (48..57) of the safe character string
DigitChars == 48..57

\* [0-9A-F] of the decoder's regular expression
HexChars == (48..57) \cup (65..70)

\* 'field_'
FIELD_PREFIX == <<102, 105, 101, 108, 100, 95>>

\* '_PCT'
PCT_OPEN == <<95, 80, 67, 84>>

\* keyword.kwlist, the reserved words that the modelled alphabet can spell:
\* 'if', 'in', 'is', 'as', 'or', 'def', 'for', 'class'
kwlist ==
    { <<105, 102>>, <<105, 110>>, <<105, 115>>, <<97, 115>>, <<111, 114>>,
      <<100, 101, 102>>, <<102, 111, 114>>, <<99, 108, 97, 115, 115>> }

\* non-ASCII code points that str.isidentifier() accepts as letters (e-acute)
UnicodeLetters == {233}

\* the largest code point chr() accepts (0x10FFFF); above it chr raises
MaxCodePoint == 1114111

startswith(s, p) == Len(s) >= Len(p) /\ SubSeq(s, 1, Len(p)) = p

\* str.isidentifier(): non-empty, starts with a letter or underscore,
\* continues with letters, digits or underscores
isidentifier(s) ==
    /\ Len(s) > 0
    /\ s[1] \in (SafeChars \ DigitChars) \cup UnicodeLetters
    /\ \A i \in 1..Len(s) : s[i] \in SafeChars \cup UnicodeLetters

iskeyword(s) == s \in kwlist

\* one hexadecimal digit 0..15 as its character, upper case
HexDigitChar(d) == IF d < 10 THEN 48 + d ELSE 55 + d

\* f'{char_code:X}'
RECURSIVE FormatHex(_)
FormatHex(n) ==
    IF n < 16 THEN <<HexDigitChar(n)>>
    ELSE Append(FormatHex(n \div 16), HexDigitChar(n % 16))

\* the hex code padded to at least two digits
PadHex(h) == IF Len(h) < 2 THEN <<48>> \o h ELSE h

\* what the encoder appends for one character
EncodeChar(c) ==
    IF c \in SafeChars THEN <<c>>
    ELSE PCT_OPEN \o PadHex(FormatHex(c)) \o <<95>>

RECURSIVE EncodeChars(_)
EncodeChars(s) ==
    IF s = <<>> THEN <<>>
    ELSE EncodeChar(Head(s)) \o EncodeChars(Tail(s))

\* a plausible slip: a name that already starts with 'field_' is passed
\* through
encode_field_name_keeps_prefixed(field_name) ==
    IF /\ isidentifier(field_name)
       /\ ~iskeyword(field_name)
       /\ \A i \in 1..Len(field_name) : field_name[i] \in SafeChars
    THEN field_name
    ELSE FIELD_PREFIX \o EncodeChars(field_name)

encode_field_name(field_name) ==
    IF /\ isidentifier(field_name)
       /\ ~iskeyword(field_name)
       /\ \A i \in 1..Len(field_name) : field_name[i] \in SafeChars
       /\ ~startswith(field_name, FIELD_PREFIX)
    THEN field_name
    ELSE FIELD_PREFIX \o EncodeChars(field_name)

\* value of one hexadecimal digit character
HexDigitValue(c) == IF c <= 57 THEN c - 48 ELSE c - 55

\* int(hex_code, 16)
RECURSIVE ParseHex(_)
ParseHex(h) ==
    IF h = <<>> THEN 0
    ELSE 16 * ParseHex(SubSeq(h, 1, Len(h) - 1)) + HexDigitValue(h[Len(h)])

\* the length of the run of hex digits of s that starts at position i
RECURSIVE HexRun(_, _)
HexRun(s, i) ==
    IF i <= Len(s) /\ s[i] \in HexChars THEN 1 + HexRun(s, i + 1) ELSE 0

\* r'_PCT([0-9A-F]+)_' matched at position i of s: the number of hex digits
\* of the match, 0 when there is no match at i.  The digits are matched
\* greedily and must be followed by '_', which is no hex digit, so the only
\* candidate is the maximal run.
MatchAt(s, i) ==
    IF /\ i + 3 <= Len(s)
       /\ SubSeq(s, i, i + 3) = PCT_OPEN
       /\ HexRun(s, i + 4) > 0
       /\ i + 4 + HexRun(s, i + 4) <= Len(s)
       /\ s[i + 4 + HexRun(s, i + 4)] = 95
    THEN HexRun(s, i + 4)
    ELSE 0

\* re.sub(r'_PCT([0-9A-F]+)_', replace_hex, s) scanning from position i:
\* [ok |-> FALSE] when chr() raises ValueError, else the decoded text
RECURSIVE ReSub(_, _)
ReSub(s, i) ==
    IF i > Len(s) THEN [ok |-> TRUE, text |-> <<>>]
    ELSE LET n == MatchAt(s, i) IN
         IF n = 0
         THEN LET rest == ReSub(s, i + 1) IN
              [ok |-> rest.ok, text |-> <<s[i]>> \o rest.text]
         ELSE LET code == ParseHex(SubSeq(s, i + 4, i + 3 + n))
                  rest == ReSub(s, i + 5 + n) IN
              IF code > MaxCodePoint
              THEN [ok |-> FALSE, text |-> <<>>]
              ELSE [ok |-> rest.ok, text |-> <<code>> \o rest.text]

\* the result of decode_field_name: [ok |-> TRUE, text |-> the name], or
\* [ok |-> FALSE, ...] when it raises
decode_field_name(encoded_name) ==
    IF ~startswith(encoded_name, FIELD_PREFIX)
    THEN [ok |-> TRUE, text |-> encoded_name]
    ELSE ReSub(SubSeq(encoded_name, 7, Len(encoded_name)), 1)

(***************************************************************************)
(* State Merge/Reducer (chatfield/merge.py)                                *)
(*                                                                         *)
(* A Python value is a record [t, v, kv]: t is its type ("none", "bool",   *)
(* "str", "dict"; "absent" for a key its dictionary does not hold), v the  *)
(* text of a bool or str, kv the <<key, text>> items of a dict.            *)
(***************************************************************************)

PyNone == [t |-> "none", v |-> "", kv |-> {}]
PyAbsent == [t |-> "absent", v |-> "", kv |-> {}]
PyStr(s) == [t |-> "str", v |-> s, kv |-> {}]
PyBool(b) == [t |-> "bool", v |-> IF b THEN "True" ELSE "False", kv |-> {}]
PyDict(items) == [t |-> "dict", v |-> "", kv |-> items]

\* Python truthiness, as tested by `not x` / `if x`
Truthy(x) ==
    \/ x.t = "bool" /\ x.v = "True"
    \/ x.t = "str" /\ x.v # ""
    \/ x.t = "dict" /\ x.kv # {}

DictKeys(x) == {p[1] : p \in x.kv}
DictGet(x, k) == PyStr((CHOOSE p \in x.kv : p[1] = k)[2])

Change(kind, path, old, new) ==
    [kind |-> kind, path |-> path, old |-> old, new |-> new]

\* DeepDiff of the two values found at one key of a dictionary
DiffValue(path, old, new) ==
    IF old = new THEN {}
    ELSE IF old.t = "absent"
    THEN {Change("dictionary_item_added", path, old, new)}
    ELSE IF new.t = "absent"
    THEN {Change("dictionary_item_removed", path, old, new)}
    ELSE IF old.t # new.t
    THEN {Change("type_changes", path, old, new)}
    ELSE IF old.t = "dict"
    THEN {Change("dictionary_item_added", Append(path, k), PyAbsent,
                 DictGet(new, k)) :
              k \in DictKeys(new) \ DictKeys(old)}
         \cup
         {Change("dictionary_item_removed", Append(path, k), DictGet(old, k),
                 PyAbsent) :
              k \in DictKeys(old) \ DictKeys(new)}
         \cup
         {Change("values_changed", Append(path, k), DictGet(old, k),
                 DictGet(new, k)) :
              k \in {j \in DictKeys(old) \cap DictKeys(new) :
                         DictGet(old, j) # DictGet(new, j)}}
    ELSE {Change("values_changed", path, old, new)}

\* DeepDiff of two lists of strings with ignore_order=True
DiffList(path, old, new) ==
    {Change("iterable_item_added", path, PyAbsent, PyStr(x)) : x \in new \ old}
    \cup
    {Change("iterable_item_removed", path, PyStr(x), PyAbsent) : x \in old \ new}

\* the paths root['roles']['alice']['type'] and root['roles']['bob']['type']
ALICE_TYPE_PATH == <<"root", "roles", "alice", "type">>
BOB_TYPE_PATH == <<"root", "roles", "bob", "type">>

\* DeepDiff(left._chatfield, right._chatfield, ignore_order=True)
DeepDiff(left, right) ==
    DiffValue(<<"root", "type">>, left.type, right.type)
    \cup DiffValue(ALICE_TYPE_PATH, left.alice, right.alice)
    \cup DiffValue(BOB_TYPE_PATH, left.bob, right.bob)
    \cup DiffValue(<<"root", "roles", "alice", "possible_traits", "kind",
                     "active">>, left.active, right.active)
    \cup DiffList(<<"root", "roles", "alice", "traits">>,
                  left.traits, right.traits)
    \cup UNION {DiffValue(<<"root", "fields", f, "value">>,
                          left.fields[f], right.fields[f]) :
                    f \in DOMAIN left.fields}

\* the branches of the type_changes loop that pass
TypeChangeOk(c) == c.old.t = "none" /\ c.new.t # "none"

\* the branches of the values_changed loop that pass
ValueChangeOk(c) ==
    \/ c.old.t = "none" /\ c.new.t # "none"
    \/ ~Truthy(c.old) /\ Truthy(c.new)
    \/ c.path = ALICE_TYPE_PATH /\ c.old = PyStr("Agent")
    \/ c.path = BOB_TYPE_PATH /\ c.old = PyStr("User")

MergeOk(x) == [ok |-> TRUE, val |-> x]
MergeRaise(x) == [ok |-> FALSE, val |-> x]

\* a plausible slip: the final `if diff: raise` is missing, so removed
\* entries pass
merge_interviews_no_leftover_check(a, b) ==
    LET diff == DeepDiff(a, b) IN
    IF diff = {} THEN MergeOk(a)
    ELSE IF \E c \in diff : c.kind = "type_changes" /\ ~TypeChangeOk(c)
    THEN MergeRaise(a)
    ELSE IF \E c \in diff : c.kind = "values_changed" /\ ~ValueChangeOk(c)
    THEN MergeRaise(a)
    ELSE MergeOk(b)

\* a plausible slip: the reducer fills the fields that are null in b from a
\* and returns the combined snapshot
merge_interviews_combines(a, b) ==
    LET diff == {c \in DeepDiff(a, b) :
                    ~(c.kind = "type_changes" /\ c.new.t = "none")}
        both == [b EXCEPT !.fields =
                    [f \in DOMAIN b.fields |->
                        IF b.fields[f].t = "none" THEN a.fields[f]
                        ELSE b.fields[f]]] IN
    IF DeepDiff(a, b) = {} THEN MergeOk(a)
    ELSE IF \E c \in diff : c.kind = "type_changes" /\ ~TypeChangeOk(c)
    THEN MergeRaise(a)
    ELSE IF \E c \in diff : c.kind = "values_changed" /\ ~ValueChangeOk(c)
    THEN MergeRaise(a)
    ELSE IF \E c \in diff :
                c.kind \notin {"type_changes", "values_changed",
                               "dictionary_item_added", "iterable_item_added"}
    THEN MergeRaise(a)
    ELSE MergeOk(both)

\* merge_interviews(a, b) for two snapshots of the same class (merge.py 27-80):
\* [ok |-> TRUE, val |-> the result], or [ok |-> FALSE, ...] when it raises
\* NotImplementedError
merge_interviews(a, b) ==
    LET diff == DeepDiff(a, b) IN
    IF diff = {} THEN MergeOk(a)
    ELSE IF \E c \in diff : c.kind = "type_changes" /\ ~TypeChangeOk(c)
    THEN MergeRaise(a)
    ELSE IF \E c \in diff : c.kind = "values_changed" /\ ~ValueChangeOk(c)
    THEN MergeRaise(a)
    ELSE IF \E c \in diff :
                c.kind \notin {"type_changes", "values_changed",
                               "dictionary_item_added", "iterable_item_added"}
    THEN MergeRaise(a)
    ELSE MergeOk(b)

\* the classes of the objects handed to the reducer: Interview and two
\* subclasses of it
InterviewClasses == {"Interview", "Exam", "Quiz"}

\* isinstance(x, cls) for an object x of class x_type
isinstance(x_type, cls) == x_type = cls \/ cls = "Interview"

\* a plausible slip: two objects of different classes are diffed like any
\* other pair
merge_interviews_typed_ignores_class(a_type, a, b_type, b) ==
    merge_interviews(a, b)

\* merge_interviews(a, b) for objects of classes a_type and b_type: the more
\* specific object wins, unrelated classes raise, objects of one class are
\* diffed
merge_interviews_typed(a_type, a, b_type, b) ==
    LET a_subclass == isinstance(a_type, b_type) /\ a_type # b_type
        b_subclass == isinstance(b_type, a_type) /\ a_type # b_type IN
    IF a_subclass THEN MergeOk(a)
    ELSE IF b_subclass THEN MergeOk(b)
    ELSE IF a_type # b_type THEN MergeRaise(a)
    ELSE merge_interviews(a, b)

\* a plausible slip: the flag channel keeps the last value written
merge_has_digested_last_value(a, b) == b

\* merge_has_digested(a, b)
merge_has_digested(a, b) == a \/ b

\* value objects of fields: {'value': 'Alice'}, {'value': 'Bob'},
\* {'value': ''} (the respondent declined) and one with a cast result
\* (a key of a value object is the sequence of the words it is made of, so
\* that its prefix can be told: 'as_one_x' is <<"as_one_", "x">>)
NaturalAlice == PyDict({<< <<"value">>, "Alice" >>})
NaturalBob == PyDict({<< <<"value">>, "Bob" >>})
NaturalDeclined == PyDict({<< <<"value">>, "" >>})
AliceWithCast ==
    PyDict({<< <<"value">>, "Alice" >>, << <<"as_quote">>, "I am Alice" >>})

(***************************************************************************)
(* Conversation Orchestrator (chatfield/interviewer.py, class Interviewer)  *)
(***************************************************************************)

\* the fields an interview definition may declare: 'q' (asked normally),
\* 'a.b' (confidential) and 'r' (conclude, which implies confidential)
F_NORMAL == <<113>>
F_CONFIDENTIAL == <<97, 46, 98>>
F_CONCLUDE == <<114>>
FieldPool == {F_NORMAL, F_CONFIDENTIAL, F_CONCLUDE}

\* chatfield['specs']['confidential'] as FieldBuilder.confidential() and
\* FieldBuilder.conclude() set it
SpecConfidential(f) == f \in {F_CONFIDENTIAL, F_CONCLUDE}

\* chatfield['specs']['conclude'] as FieldBuilder.conclude() sets it
SpecConclude(f) == f = F_CONCLUDE

\* ChatfieldBuilder.build(): the interview the caller hands to Interviewer,
\* every field's value None, the roles' default types
BuildInterview(d) ==
    [ type   |-> PyStr("Exam"),
      alice  |-> PyStr("Agent"),
      bob    |-> PyStr("User"),
      active |-> PyBool(FALSE),
      traits |-> {},
      fields |-> [f \in FieldPool |-> IF f \in d THEN PyNone ELSE PyAbsent] ]

\* Interview(): the totally-null interview the state holds before initialize
EmptyInterview ==
    [ type   |-> PyNone,
      alice  |-> PyStr("Agent"),
      bob    |-> PyStr("User"),
      active |-> PyBool(FALSE),
      traits |-> {},
      fields |-> [f \in FieldPool |-> PyAbsent] ]

\* Interview._fields(): the names of the interview's fields
FieldNames(iv) == {f \in FieldPool : iv.fields[f].t # "absent"}

\* a plausible slip: enough asks for every field, as done does
Enough_every_field(iv) ==
    \A f \in FieldNames(iv) : iv.fields[f].t # "none"

\* Interview._enough: every field that is neither confidential nor conclude
\* has a non-null value
Enough(iv) ==
    \A f \in FieldNames(iv) :
        (~SpecConfidential(f) /\ ~SpecConclude(f)) => iv.fields[f].t # "none"

\* Interview._done: every field has a non-null value
Done(iv) == \A f \in FieldNames(iv) : iv.fields[f].t # "none"

\* Interview._copy_from(other): the handle takes over the other's _chatfield
CopyFrom(other) == other

\* _get_state_interview(state) raises: no fields, yet not the totally-null
\* interview
StateInterviewBad(iv) == FieldNames(iv) = {} /\ iv.type.t # "none"

\* message contents: 'Success', 'Error:' (the start of an error report),
\* 'hi' (a user's text), 'Hi' and ' Hi\n' (the assistant's texts)
SUCCESS == <<83, 117, 99, 99, 101, 115, 115>>
ERROR == <<69, 114, 114, 111, 114, 58>>
UserText == <<104, 105>>
AssistantTexts == { <<72, 105>>, <<32, 72, 105, 10>> }

\* no user input (None)
NoInput == <<0>>

\* the characters str.strip() removes: \t \n \v \f \r and space
Whitespace == {9, 10, 11, 12, 13, 32}

RECURSIVE LStrip(_)
LStrip(s) ==
    IF s # <<>> /\ Head(s) \in Whitespace THEN LStrip(Tail(s)) ELSE s

RECURSIVE RStrip(_)
RStrip(s) ==
    IF s # <<>> /\ s[Len(s)] \in Whitespace
    THEN RStrip(SubSeq(s, 1, Len(s) - 1))
    ELSE s

\* str.strip()
Strip(s) == RStrip(LStrip(s))

Msg(id, type, kind, content, calls) ==
    [id |-> id, type |-> type, kind |-> kind, content |-> content,
     calls |-> calls, tool_call_id |-> ""]

HumanMessage(id, content) == Msg(id, "human", "", content, <<>>)
SystemMessage(id, kind) == Msg(id, "system", kind, <<>>, <<>>)
AIMessage(id, content, calls) == Msg(id, "ai", "", content, calls)
ToolMessage(id, name, tool_call_id, content) ==
    [Msg(id, "tool", name, content, <<>>) EXCEPT !.tool_call_id = tool_call_id]

\* langgraph add_messages: a message whose id is already in the log replaces
\* that entry, any other message is appended
RECURSIVE add_messages(_, _)
add_messages(left, right) ==
    IF right = <<>> THEN left
    ELSE LET m == Head(right)
             hit == {i \in 1..Len(left) : left[i].id = m.id} IN
         add_messages(
             IF hit = {} THEN Append(left, m)
             ELSE [left EXCEPT ![CHOOSE i \in hit : TRUE] = m],
             Tail(right))

LastMessage(msgs) == msgs[Len(msgs)]

\* langgraph tools_condition: "tools" when the last message is an assistant
\* message with tool calls, "raise" on an empty log, else "__end__"
tools_condition(msgs) ==
    IF msgs = <<>> THEN "raise"
    ELSE IF LastMessage(msgs).type = "ai" /\ LastMessage(msgs).calls # <<>>
    THEN "tools"
    ELSE "__end__"

\* the keys of the update tool's schema: every non-conclude field, encoded
UpdateToolKeys(iv) ==
    {encode_field_name(f) : f \in {g \in FieldNames(iv) : ~SpecConclude(g)}}

\* the keys of the conclude tool's schema: every conclude field, encoded
ConcludeToolKeys(iv) ==
    {encode_field_name(f) : f \in {g \in FieldNames(iv) : SpecConclude(g)}}

\* the fields digest_confidentials asks about: confidential, not conclude,
\* value falsy
UnsetConfidentials(iv) ==
    {f \in FieldNames(iv) :
        ~SpecConclude(f) /\ SpecConfidential(f) /\ ~Truthy(iv.fields[f])}

\* the keys of the confidential tool's schema
ConfidentialToolKeys(iv) == {encode_field_name(f) : f \in UnsetConfidentials(iv)}

\* mk_fields_prompt(interview, mode='conclude'): one entry per conclude field
ConcludeFieldsPrompt(iv) == {f \in FieldNames(iv) : SpecConclude(f)}

\* a key that names no field of the interview
UnknownKey == <<122, 122>>

\* the values a tool call gives for a field: null or a value object
ArgValues == {PyNone, NaturalAlice, NaturalBob}

\* the tool calls the chat model may answer with when a tool with these keys
\* is bound: one entry for a key of the schema, or an entry for an unknown key
ToolCallChoices(name, keys) ==
    {[id |-> PyStr("call_1"), name |-> name, args |-> <<<<k, v>>>>] :
        k \in keys, v \in ArgValues}
    \cup {[id |-> PyStr("call_1"), name |-> name,
           args |-> <<<<UnknownKey, NaturalAlice>>>>]}

\* the chat model's answers: a plain text, or (only with a tool bound) a
\* message carrying a tool call
LLMReplies(id, bound, name, keys) ==
    {AIMessage(id, t, <<>>) : t \in AssistantTexts}
    \cup (IF bound
          THEN {AIMessage(id, <<>>, <<c>>) : c \in ToolCallChoices(name, keys)}
          ELSE {})

\* re.sub('^' + prefix, repl, key)
re_sub_prefix(prefix, repl, key) ==
    IF key # <<>> /\ Head(key) = prefix THEN <<repl>> \o Tail(key) ELSE key

\* a plausible slip: the rewriting takes the prefix away and puts nothing in
\* its place
NormalizeKey_drops_prefix(key) ==
    IF key # <<>> /\ Head(key) \in {"choose_exactly_one_", "choose_zero_or_one_",
                                    "choose_one_or_more_", "choose_zero_or_more_"}
    THEN Tail(key)
    ELSE key

\* the key rewriting of process_update_tool: the four substitutions, one
\* after the other
NormalizeKey(key) ==
    re_sub_prefix("choose_zero_or_more_", "as_any_",
        re_sub_prefix("choose_one_or_more_", "as_multi_",
            re_sub_prefix("choose_zero_or_one_", "as_maybe_",
                re_sub_prefix("choose_exactly_one_", "as_one_", key))))

\* all_values: the value object under its rewritten keys
NormalizeValue(val) == PyDict({<<NormalizeKey(p[1]), p[2]>> : p \in val.kv})

\* a plausible slip: a null entry is stored instead of being skipped
RECURSIVE process_update_tool_stores_null(_, _)
process_update_tool_stores_null(iv, args) ==
    IF args = <<>> THEN [iv |-> iv, raised |-> FALSE]
    ELSE LET key == args[1][1]
             val == args[1][2]
             dec == decode_field_name(key) IN
         IF ~dec.ok THEN [iv |-> iv, raised |-> TRUE]
         ELSE IF dec.text \notin FieldNames(iv)
         THEN [iv |-> iv, raised |-> TRUE]
         ELSE process_update_tool_stores_null(
                  [iv EXCEPT !.fields[dec.text] =
                       IF val = PyNone THEN PyNone ELSE NormalizeValue(val)],
                  Tail(args))

\* a plausible slip: the new value object is laid over the prior one, whose
\* other keys stay
RECURSIVE process_update_tool_keeps_prior_keys(_, _)
process_update_tool_keeps_prior_keys(iv, args) ==
    IF args = <<>> THEN [iv |-> iv, raised |-> FALSE]
    ELSE LET key == args[1][1]
             val == args[1][2]
             dec == decode_field_name(key) IN
         IF val = PyNone
         THEN process_update_tool_keeps_prior_keys(iv, Tail(args))
         ELSE IF ~dec.ok THEN [iv |-> iv, raised |-> TRUE]
         ELSE IF dec.text \notin FieldNames(iv)
         THEN [iv |-> iv, raised |-> TRUE]
         ELSE IF val.t # "dict" THEN [iv |-> iv, raised |-> TRUE]
         ELSE LET new == NormalizeValue(val)
                  old == iv.fields[dec.text] IN
              process_update_tool_keeps_prior_keys(
                  [iv EXCEPT !.fields[dec.text] =
                       PyDict(new.kv \cup
                              {p \in old.kv : p[1] \notin DictKeys(new)})],
                  Tail(args))

\* process_update_tool run on a copy of the interview
RECURSIVE process_update_tool_on_copy(_, _)
process_update_tool_on_copy(iv, args) ==
    IF args = <<>> THEN [iv |-> iv, raised |-> FALSE]
    ELSE LET key == args[1][1]
             val == args[1][2]
             dec == decode_field_name(key) IN
         IF val = PyNone THEN process_update_tool_on_copy(iv, Tail(args))
         ELSE IF ~dec.ok THEN [iv |-> iv, raised |-> TRUE]
         ELSE IF dec.text \notin FieldNames(iv)
         THEN [iv |-> iv, raised |-> TRUE]
         ELSE IF val.t # "dict" THEN [iv |-> iv, raised |-> TRUE]
         ELSE process_update_tool_on_copy(
                  [iv EXCEPT !.fields[dec.text] = NormalizeValue(val)],
                  Tail(args))

\* a plausible slip: a tool call is applied as a whole or not at all
process_update_tool_all_or_nothing(iv, args) ==
    LET r == process_update_tool_on_copy(iv, args) IN
    IF r.raised THEN [iv |-> iv, raised |-> TRUE] ELSE r

\* process_update_tool(interview, **kwargs): the entries are applied in
\* order; [iv |-> the interview as mutated, raised |-> an entry raised]
RECURSIVE process_update_tool(_, _)
process_update_tool(iv, args) ==
    IF args = <<>> THEN [iv |-> iv, raised |-> FALSE]
    ELSE LET key == args[1][1]
             val == args[1][2]
             dec == decode_field_name(key) IN
         IF val = PyNone THEN process_update_tool(iv, Tail(args))
         ELSE IF ~dec.ok THEN [iv |-> iv, raised |-> TRUE]
         ELSE IF dec.text \notin FieldNames(iv)
         THEN [iv |-> iv, raised |-> TRUE]
         ELSE IF val.t # "dict" THEN [iv |-> iv, raised |-> TRUE]
         ELSE process_update_tool(
                  [iv EXCEPT !.fields[dec.text] = NormalizeValue(val)],
                  Tail(args))

\* run_tool: the interview after the tool call and the tool message's content
run_tool(iv, tool_call) ==
    LET r == process_update_tool(iv, tool_call.args) IN
    [iv |-> r.iv, content |-> IF r.raised THEN ERROR ELSE SUCCESS]

\* tool_call_invocation['id'] or ''
ToolCallId(tool_call) == IF Truthy(tool_call.id) THEN tool_call.id.v ELSE ""

\* a plausible slip: the loop stops at the first tool call that fails
RECURSIVE RunToolCalls_stops_at_error(_, _, _)
RunToolCalls_stops_at_error(iv, calls, id) ==
    IF calls = <<>> THEN [iv |-> iv, out |-> <<>>]
    ELSE LET r == run_tool(iv, Head(calls))
             rest == IF r.content = ERROR THEN [iv |-> r.iv, out |-> <<>>]
                     ELSE RunToolCalls_stops_at_error(r.iv, Tail(calls), id + 1)
         IN
         [iv |-> rest.iv,
          out |-> <<ToolMessage(id, Head(calls).name, ToolCallId(Head(calls)),
                                r.content)>> \o rest.out]

\* the loop of tools() over the tool calls of the last message:
\* [iv |-> the interview as mutated, out |-> output_messages]
RECURSIVE RunToolCalls(_, _, _)
RunToolCalls(iv, calls, id) ==
    IF calls = <<>> THEN [iv |-> iv, out |-> <<>>]
    ELSE LET r == run_tool(iv, Head(calls))
             rest == RunToolCalls(r.iv, Tail(calls), id + 1) IN
         [iv |-> rest.iv,
          out |-> <<ToolMessage(id, Head(calls).name, ToolCallId(Head(calls)),
                                r.content)>> \o rest.out]

\* a plausible slip: the interview is put in the state update even when the
\* tool calls changed nothing
tools_always_updates(iv, msgs) ==
    IF \/ StateInterviewBad(iv)
       \/ msgs = <<>>
       \/ LastMessage(msgs).type # "ai"
       \/ LastMessage(msgs).calls = <<>>
    THEN [raised |-> TRUE, iv |-> iv, out |-> <<>>, update |-> FALSE]
    ELSE LET r == RunToolCalls(iv, LastMessage(msgs).calls, Len(msgs) + 1) IN
         [raised |-> FALSE, iv |-> r.iv, out |-> r.out, update |-> TRUE]

\* node tools: [raised |-> it raised, iv |-> the state's interview as mutated
\* in place, out |-> output_messages, update |-> the interview is part of the
\* state update]
tools(iv, msgs) ==
    IF \/ StateInterviewBad(iv)
       \/ msgs = <<>>
       \/ LastMessage(msgs).type # "ai"
       \/ LastMessage(msgs).calls = <<>>
    THEN [raised |-> TRUE, iv |-> iv, out |-> <<>>, update |-> FALSE]
    ELSE LET r == RunToolCalls(iv, LastMessage(msgs).calls, Len(msgs) + 1) IN
         [raised |-> FALSE, iv |-> r.iv, out |-> r.out, update |-> r.iv # iv]

\* a plausible slip: the route ends the conversation once every field has a
\* value
route_from_tools_teardown_when_done(iv, conf, concl) ==
    IF Done(iv) THEN "teardown"
    ELSE IF Enough(iv) /\ ~conf THEN "digest_confidentials"
    ELSE IF Enough(iv) /\ ~concl THEN "digest_concludes"
    ELSE "think"

\* a plausible slip: the digestion flags are not consulted
route_from_tools_ignores_flags(iv, conf, concl) ==
    IF Enough(iv) THEN "digest_confidentials" ELSE "think"

\* a plausible slip: the two digestion branches are tested in the other order
route_from_tools_concludes_first(iv, conf, concl) ==
    IF Enough(iv) /\ ~concl THEN "digest_concludes"
    ELSE IF Enough(iv) /\ ~conf THEN "digest_confidentials"
    ELSE "think"

\* a plausible slip: the confidential digestion branch is missing
route_from_tools_skips_confidentials(iv, conf, concl) ==
    IF Enough(iv) /\ ~concl THEN "digest_concludes" ELSE "think"

route_from_tools(iv, conf, concl) ==
    IF Enough(iv) /\ ~conf THEN "digest_confidentials"
    ELSE IF Enough(iv) /\ ~concl THEN "digest_concludes"
    ELSE "think"

\* a plausible slip: a digest step that does not go on to digest_concludes
\* always hands over to tools
route_from_digest_always_tools(iv, msgs, concl) ==
    IF Enough(iv) /\ ~concl THEN "digest_concludes" ELSE "tools"

route_from_digest(iv, msgs, concl) ==
    IF Enough(iv) /\ ~concl THEN "digest_concludes"
    ELSE IF tools_condition(msgs) = "raise" THEN "raise"
    ELSE IF tools_condition(msgs) = "tools" THEN "tools"
    ELSE "think"

route_from_think(msgs) ==
    IF tools_condition(msgs) = "raise" THEN "raise"
    ELSE IF tools_condition(msgs) = "tools" THEN "tools"
    ELSE "listen"

\* a plausible slip: only the head of the log is looked at for a system
\* message
prior_system_messages_head_only(msgs) ==
    IF msgs # <<>> /\ msgs[1].type = "system" THEN <<msgs[1]>> ELSE <<>>

\* think: the system messages already in the log
prior_system_messages(msgs) ==
    SelectSeq(msgs, LAMBDA m : m.type = "system")

\* a plausible slip: think binds the update tool whatever the last message is
ThinkBindsTool_always(msgs) == TRUE

\* a plausible slip: any tool result, successful or not, turns the tool off
ThinkBindsTool_off_after_any_tool_result(msgs) ==
    IF msgs = <<>> THEN TRUE
    ELSE IF LastMessage(msgs).type = "system" THEN FALSE
    ELSE IF LastMessage(msgs).type = "tool" THEN FALSE
    ELSE TRUE

\* think binds no tool right after a system message or a successful tool
\* result
ThinkBindsTool(msgs) ==
    IF msgs = <<>> THEN TRUE
    ELSE IF LastMessage(msgs).type = "system" THEN FALSE
    ELSE IF LastMessage(msgs).type = "tool" /\ LastMessage(msgs).content = SUCCESS
    THEN FALSE
    ELSE TRUE

\* a plausible slip: the feedback is taken from the first message of the log
ListenFeedback_first_message(msgs) == Strip(msgs[1].content)

\* listen: feedback = msg.content.strip() of the last message
ListenFeedback(msgs) == Strip(LastMessage(msgs).content)

(***************************************************************************)
(* Tool schemas (llm_update_tool, llm_conclude_tool, digest_confidentials)  *)
(*                                                                         *)
(* The fields are the sequence of the entries of                            *)
(* interview._chatfield['fields'] in insertion order: [name, confidential,  *)
(* conclude, value]; an args_schema is the set of its <<key, slot>> pairs.  *)
(***************************************************************************)

\* the indices of the entries whose key a later entry of the same selection
\* does not assign again: args_schema[encoded_name] = ... overwrites
LastAssigned(fields, selected) ==
    {i \in selected :
        \A j \in selected :
            j > i => encode_field_name(fields[j].name)
                         # encode_field_name(fields[i].name)}

\* args_schema built by a loop over the selected fields
ArgsSchema(fields, selected, optional) ==
    { <<encode_field_name(fields[i].name),
        [optional |-> optional, field |-> fields[i].name]>> :
      i \in LastAssigned(fields, selected) }

\* llm_update_tool: args_schema[encoded_name] = (Optional[...], Field()) for
\* every field that is not a conclude field
update_args_schema(fields) ==
    ArgsSchema(fields, {i \in 1..Len(fields) : ~fields[i].conclude}, TRUE)

\* llm_conclude_tool: args_schema[encoded_name] = (..., Field()) for every
\* conclude field
conclude_args_schema(fields) ==
    ArgsSchema(fields, {i \in 1..Len(fields) : fields[i].conclude}, FALSE)

\* digest_confidentials: field_definitions[encoded_name] = (..., Field()) for
\* every field that is not conclude, is confidential and has a falsy value
confidential_args_schema(fields) ==
    ArgsSchema(fields,
               {i \in 1..Len(fields) :
                   /\ ~fields[i].conclude
                   /\ fields[i].confidential
                   /\ ~Truthy(fields[i].value)},
               FALSE)

NoSchemas == [update |-> {}, conclude |-> {}, confidential |-> {}]

(***************************************************************************)
(* Interviewer construction (chatfield/interviewer.py, __init__ and         *)
(* _detect_dangerous_endpoint; chatfield/builder.py, the cast builders)     *)
(*                                                                         *)
(* A URL is the record of its parts as urlparse splits them; a model        *)
(* identifier is the sequence of its prefix and its name.                   *)
(***************************************************************************)

Url(scheme, slashes, userinfo, host, port, path) ==
    [scheme |-> scheme, slashes |-> slashes, userinfo |-> userinfo,
     host |-> host, port |-> port, path |-> path]

\* ''
EmptyUrl == Url("", FALSE, "", "", "", "")

\* base_url=None and base_url='...'
NoUrl == [t |-> "none", u |-> EmptyUrl]
StrUrl(u) == [t |-> "str", u |-> u]

\* str.lower() on the host names used here
HostLower(h) == IF h = "API.OpenAI.com" THEN "api.openai.com" ELSE h

\* urlparse(base_url).hostname: the host of the network location, without
\* user information and port, in lower case; None when the URL has no
\* network location
urlparse_hostname(u) ==
    IF u.slashes /\ u.host # "" THEN PyStr(HostLower(u.host)) ELSE PyNone

\* Interviewer.DANGEROUS_ENDPOINTS
DANGEROUS_ENDPOINTS == <<"api.openai.com", "api.anthropic.com">>

\* what the endpoint check did: raised ValueError, the warnings it emitted,
\* the debug lines it logged
Quiet == [raised |-> FALSE, warnings |-> <<>>, logged |-> <<>>]

\* a plausible slip: the disabled mode warns too
on_dangerous_endpoint_warns_when_disabled(mode, message) ==
    IF mode \in {"disabled", "warn"} THEN [Quiet EXCEPT !.warnings = <<message>>]
    ELSE IF mode = "strict" THEN [Quiet EXCEPT !.raised = TRUE]
    ELSE Quiet

on_dangerous_endpoint(mode, message) ==
    IF mode = "disabled" THEN [Quiet EXCEPT !.logged = <<message>>]
    ELSE IF mode = "warn" THEN [Quiet EXCEPT !.warnings = <<message>>]
    ELSE IF mode = "strict" THEN [Quiet EXCEPT !.raised = TRUE]
    ELSE Quiet

\* the first entry of DANGEROUS_ENDPOINTS equal to the host name
FirstMatch(hostname) ==
    CHOOSE i \in 1..Len(DANGEROUS_ENDPOINTS) :
        /\ DANGEROUS_ENDPOINTS[i] = hostname
        /\ \A j \in 1..(i - 1) : DANGEROUS_ENDPOINTS[j] # hostname

\* a plausible slip: a missing base URL is taken for a relative one
detect_dangerous_endpoint_none_is_safe(base_url, mode) ==
    LET hostname == IF base_url.t = "str" /\ base_url.u # EmptyUrl
                    THEN urlparse_hostname(base_url.u) ELSE PyNone IN
    IF hostname = PyNone THEN Quiet
    ELSE IF \E i \in 1..Len(DANGEROUS_ENDPOINTS) :
                DANGEROUS_ENDPOINTS[i] = hostname.v
    THEN on_dangerous_endpoint(mode,
             [kind |-> "official",
              host |-> DANGEROUS_ENDPOINTS[FirstMatch(hostname.v)]])
    ELSE Quiet

\* a plausible slip: the host name is matched by its ending
detect_dangerous_endpoint_any_host(base_url, mode) ==
    LET hostname == IF base_url.t = "str" /\ base_url.u # EmptyUrl
                    THEN urlparse_hostname(base_url.u) ELSE PyNone IN
    IF base_url.t = "none"
    THEN on_dangerous_endpoint(mode, [kind |-> "no-explicit", host |-> ""])
    ELSE IF hostname = PyNone THEN Quiet
    ELSE on_dangerous_endpoint(mode,
             [kind |-> "official", host |-> hostname.v])

\* _detect_dangerous_endpoint(llm, mode), with base_url = llm.openai_api_base
detect_dangerous_endpoint(base_url, mode) ==
    LET hostname == IF base_url.t = "str" /\ base_url.u # EmptyUrl
                    THEN urlparse_hostname(base_url.u) ELSE PyNone IN
    IF base_url.t = "none"
    THEN on_dangerous_endpoint(mode, [kind |-> "no-explicit", host |-> ""])
    ELSE IF hostname = PyNone THEN Quiet
    ELSE IF \E i \in 1..Len(DANGEROUS_ENDPOINTS) :
                DANGEROUS_ENDPOINTS[i] = hostname.v
    THEN on_dangerous_endpoint(mode,
             [kind |-> "official",
              host |-> DANGEROUS_ENDPOINTS[FirstMatch(hostname.v)]])
    ELSE Quiet

\* llm_id or 'openai:gpt-4o' (<<>> is None)
DefaultLlmId(llm_id) == IF llm_id = <<>> THEN <<"openai:", "gpt-4o">> ELSE llm_id

\* llm_id.startswith('openai:')
HasOpenaiPrefix(llm_id) == llm_id[1] = "openai:"

\* endpoint_security or 'disabled' ("" is None)
SecurityMode(endpoint_security) ==
    IF endpoint_security = "" THEN "disabled" ELSE endpoint_security

\* no cast on the field
NoCast == [type |-> "none"]

\* CastBuilder.__call__ and ChoiceBuilder.__call__: the cast_info stored in
\* the field, or ValueError
BuildCast(decl) ==
    IF decl.via = "none" THEN [raised |-> FALSE, cast |-> NoCast]
    ELSE IF decl.via = "direct"
    THEN [raised |-> FALSE, cast |-> [type |-> decl.type]]
    ELSE IF decl.base = "as_lang"
    THEN IF decl.nargs = 0 THEN [raised |-> TRUE, cast |-> NoCast]
         ELSE [raised |-> FALSE, cast |-> [type |-> "str"]]
    ELSE IF decl.base = "as_one"
    THEN IF decl.nargs < 2 THEN [raised |-> TRUE, cast |-> NoCast]
         ELSE [raised |-> FALSE, cast |-> [type |-> "choice"]]
    ELSE [raised |-> FALSE, cast |-> [type |-> "int"]]

\* mk_casts_definitions: the keys of ok_primitive_types
ok_primitive_types ==
    {"int", "float", "str", "bool", "list", "set", "dict", "choice"}

\* mk_casts_definitions raises ValueError on a cast of another type
CastsDefinitionsRaise(cast) ==
    cast.type # "none" /\ cast.type \notin ok_primitive_types

\* a cast declaration: through a builder call with nargs arguments, or by a
\* cast_info of the given type put into the field's casts
Decl(via, base, nargs, type) ==
    [via |-> via, base |-> base, nargs |-> nargs, type |-> type]

NoDecl == Decl("none", "", 0, "")

NoConfig ==
    [decl |-> NoDecl, on |-> "normal", llm |-> "none",
     llm_id |-> <<>>, base_url |-> NoUrl, endpoint_security |-> ""]

NoResult ==
    [error |-> "none", warnings |-> <<>>, logged |-> <<>>, graph |-> FALSE,
     llm_calls |-> 0, cast |-> NoCast]

(***************************************************************************)
(* Specification SpecCodec: field names are built and run through the      *)
(* codec                                                                   *)
(***************************************************************************)

\* not yet computed
NotYet == [ok |-> FALSE, text |-> <<0>>]

\* The pieces field names are built from: 'a', '1', '.', e-acute, 'if',
\* 'field_' and '_PCT2E_' (text shaped like the escape token of '.')
Chunks ==
    { <<97>>, <<49>>, <<46>>, <<233>>, <<105, 102>>,
      FIELD_PREFIX, <<95, 80, 67, 84, 50, 69, 95>> }

\* the number of chunks a field name is built from, at most
MaxChunks == 2

CodecIdle ==
    /\ cphase = "idle"
    /\ cname1 = <<>>
    /\ cname2 = <<>>
    /\ cn1 = 0
    /\ cn2 = 0
    /\ cenc1 = <<0>>
    /\ cenc2 = <<0>>
    /\ cdec1 = NotYet

MergeIdle ==
    /\ mphase = "idle"
    /\ mta = "Interview"
    /\ mtb = "Interview"
    /\ ma = EmptyInterview
    /\ mb = EmptyInterview
    /\ mres = MergeRaise(EmptyInterview)

ToolsIdle ==
    /\ tphase = "idle"
    /\ tiv = EmptyInterview
    /\ tmsgs = <<>>
    /\ tres = tools(EmptyInterview, <<>>)

CtorIdle ==
    /\ kphase = "idle"
    /\ kcfg = NoConfig
    /\ kres = NoResult

ThreadsIdle ==
    /\ xshared = FALSE
    /\ xobj = <<>>
    /\ xconv = <<>>

SchemaIdle ==
    /\ sphase = "idle"
    /\ sfields = <<>>
    /\ sschema = NoSchemas

ConvIdle ==
    /\ defn = {}
    /\ handle = EmptyInterview
    /\ interview = EmptyInterview
    /\ messages = <<>>
    /\ has_digested_confidentials = FALSE
    /\ has_digested_concludes = FALSE
    /\ pc = "idle"
    /\ call = "none"
    /\ resuming = FALSE
    /\ resume = NoInput
    /\ interrupts = <<>>
    /\ ret = [kind |-> "none", text |-> <<>>]
    /\ nLLM = 0
    /\ nConf = 0
    /\ nConcl = 0

CodecInit ==
    /\ cphase = "input"
    /\ cname1 = <<>>
    /\ cname2 = <<>>
    /\ cn1 = 0
    /\ cn2 = 0
    /\ cenc1 = <<0>>
    /\ cenc2 = <<0>>
    /\ cdec1 = NotYet
    /\ MergeIdle
    /\ ToolsIdle
    /\ ConvIdle
    /\ CtorIdle
    /\ ThreadsIdle
    /\ SchemaIdle

\* the caller extends the first field name
CodecGrow1 ==
    /\ cphase = "input"
    /\ cn1 < MaxChunks
    /\ cn2 = 0
    /\ \E c \in Chunks : cname1' = cname1 \o c
    /\ cn1' = cn1 + 1
    /\ UNCHANGED <<cphase, cname2, cn2, cenc1, cenc2, cdec1>>
    /\ UNCHANGED <<mergeVars, convVars, toolVars,
                   ctorVars, threadVars, schemaVars>>

\* the caller extends the second field name
CodecGrow2 ==
    /\ cphase = "input"
    /\ cn2 < MaxChunks
    /\ \E c \in Chunks : cname2' = cname2 \o c
    /\ cn2' = cn2 + 1
    /\ UNCHANGED <<cphase, cname1, cn1, cenc1, cenc2, cdec1>>
    /\ UNCHANGED <<mergeVars, convVars, toolVars,
                   ctorVars, threadVars, schemaVars>>

\* encode_field_name applied to both names
CodecEncode ==
    /\ cphase = "input"
    /\ cphase' = "encoded"
    /\ cenc1' = encode_field_name(cname1)
    /\ cenc2' = encode_field_name(cname2)
    /\ UNCHANGED <<cname1, cname2, cn1, cn2, cdec1>>
    /\ UNCHANGED <<mergeVars, convVars, toolVars,
                   ctorVars, threadVars, schemaVars>>

\* decode_field_name applied to the first encoded name
CodecDecode ==
    /\ cphase = "encoded"
    /\ cphase' = "decoded"
    /\ cdec1' = decode_field_name(cenc1)
    /\ UNCHANGED <<cname1, cname2, cn1, cn2, cenc1, cenc2>>
    /\ UNCHANGED <<mergeVars, convVars, toolVars,
                   ctorVars, threadVars, schemaVars>>

CodecNext == CodecGrow1 \/ CodecGrow2 \/ CodecEncode \/ CodecDecode

SpecCodec == CodecInit /\ [][CodecNext]_vars

(***************************************************************************)
(* Specification SpecMerge: the reducer applied to two snapshots           *)
(***************************************************************************)

\* the values of the two fields of the snapshots: the first exists, the
\* second may not
MergeFieldValues ==
    {[f \in FieldPool |-> IF f = F_NORMAL THEN x
                          ELSE IF f = F_CONFIDENTIAL THEN y
                          ELSE PyAbsent] :
        x \in {PyNone, NaturalDeclined, NaturalAlice, NaturalBob,
               AliceWithCast},
        y \in {PyAbsent, PyNone, NaturalAlice}}

\* the snapshots handed to the reducer: interview type unset or set, the
\* roles' types the default or a real one, a possible trait inactive or
\* active, a trait list, and the fields
MergeSnapshots ==
    [ type   : {PyNone, PyStr("Exam")},
      alice  : {PyStr("Agent"), PyStr("Teacher")},
      bob    : {PyStr("User"), PyStr("Student")},
      active : {PyBool(FALSE), PyBool(TRUE)},
      traits : SUBSET {"kind"},
      fields : MergeFieldValues ]

\* the snapshots of the subclasses: only the fields vary
SubclassSnapshots ==
    {m \in MergeSnapshots :
        /\ m.type = PyStr("Exam")
        /\ m.alice = PyStr("Agent")
        /\ m.bob = PyStr("User")
        /\ m.active = PyBool(FALSE)
        /\ m.traits = {}}

MergeInit ==
    /\ mphase = "input"
    /\ mta \in InterviewClasses
    /\ mtb \in InterviewClasses
    /\ ma \in IF mta = "Interview" /\ mtb = "Interview"
              THEN MergeSnapshots ELSE SubclassSnapshots
    /\ mb \in IF mta = "Interview" /\ mtb = "Interview"
              THEN MergeSnapshots ELSE SubclassSnapshots
    /\ mres = MergeRaise(ma)
    /\ CodecIdle
    /\ ToolsIdle
    /\ ConvIdle
    /\ CtorIdle
    /\ ThreadsIdle
    /\ SchemaIdle

\* the graph applies the reducer to the two snapshots
MergeApply ==
    /\ mphase = "input"
    /\ mphase' = "merged"
    /\ mres' = merge_interviews_typed(mta, ma, mtb, mb)
    /\ UNCHANGED <<mta, mtb, ma, mb>>
    /\ UNCHANGED <<codecVars, convVars, toolVars,
                   ctorVars, threadVars, schemaVars>>

MergeNext == MergeApply

SpecMerge == MergeInit /\ [][MergeNext]_vars

(***************************************************************************)
(* Specification SpecTools: the tools node applied to an interview and an   *)
(* assistant message                                                       *)
(***************************************************************************)

\* a value object with legacy cast keys: 'choose_exactly_one_x',
\* 'choose_zero_or_one_x', 'choose_one_or_more_x', 'choose_zero_or_more_x',
\* the canonical 'as_one_y', and 'choose_exactly_one_choose_zero_or_one_z'
LegacyValue ==
    PyDict({ << <<"value">>, "Alice" >>,
             << <<"choose_exactly_one_", "x">>, "a" >>,
             << <<"choose_zero_or_one_", "x">>, "b" >>,
             << <<"choose_one_or_more_", "x">>, "c" >>,
             << <<"choose_zero_or_more_", "x">>, "d" >>,
             << <<"as_one_", "y">>, "e" >>,
             << <<"choose_exactly_one_", "choose_zero_or_one_", "z">>, "f" >> })

\* the arguments of a tool call: no entry; a value for the normal field; a
\* null entry; a null entry and a value for the other field; a value with
\* legacy keys followed by an entry for an unknown key; a value, an entry for
\* an unknown key and a value for the other field; an unknown key alone; a
\* value that is not a value object
ToolArgsPool ==
    LET kq == encode_field_name(F_NORMAL)
        kab == encode_field_name(F_CONFIDENTIAL) IN
    { <<>>,
      << <<kq, NaturalAlice>> >>,
      << <<kq, NaturalBob>> >>,
      << <<kq, PyNone>> >>,
      << <<kq, PyNone>>, <<kab, NaturalBob>> >>,
      << <<kq, LegacyValue>>, <<UnknownKey, NaturalAlice>> >>,
      << <<kq, NaturalAlice>>, <<UnknownKey, NaturalAlice>>,
         <<kab, NaturalBob>> >>,
      << <<UnknownKey, NaturalAlice>> >>,
      << <<kq, PyStr("x")>> >> }

\* tool calls of one assistant message, at most
MaxCalls == 2

\* the interviews the node finds in the state: the normal field unset or
\* set, the confidential field missing or unset
ToolInterviews ==
    {[BuildInterview({F_NORMAL, F_CONFIDENTIAL}) EXCEPT
          !.fields[F_NORMAL] = x, !.fields[F_CONFIDENTIAL] = y] :
        x \in {PyNone, NaturalBob, AliceWithCast}, y \in {PyAbsent, PyNone}}

ToolsInit ==
    /\ tphase = "input"
    /\ tiv \in ToolInterviews
    /\ tmsgs = <<AIMessage(1, <<>>, <<>>)>>
    /\ tres = tools(EmptyInterview, <<>>)
    /\ CodecIdle
    /\ MergeIdle
    /\ ConvIdle
    /\ CtorIdle
    /\ ThreadsIdle
    /\ SchemaIdle

\* the chat model's message gets one more tool call
ToolsAddCall ==
    /\ tphase = "input"
    /\ Len(tmsgs[1].calls) < MaxCalls
    /\ \E args \in ToolArgsPool, named \in BOOLEAN :
           LET n == Len(tmsgs[1].calls) + 1
               c == [id |-> IF named THEN PyStr("call_" \o ToString(n))
                            ELSE PyNone,
                     name |-> "update", args |-> args] IN
           tmsgs' = <<AIMessage(1, <<>>, Append(tmsgs[1].calls, c))>>
    /\ UNCHANGED <<tphase, tiv, tres>>
    /\ UNCHANGED <<codecVars, mergeVars, convVars,
                   ctorVars, threadVars, schemaVars>>

\* the graph runs the tools node
ToolsApply ==
    /\ tphase = "input"
    /\ tphase' = "done"
    /\ tres' = tools(tiv, tmsgs)
    /\ UNCHANGED <<tiv, tmsgs>>
    /\ UNCHANGED <<codecVars, mergeVars, convVars,
                   ctorVars, threadVars, schemaVars>>

ToolsNext == ToolsAddCall \/ ToolsApply

SpecTools == ToolsInit /\ [][ToolsNext]_vars

(***************************************************************************)
(* Specification SpecConstruct: an interview is built, an Interviewer is    *)
(* constructed over it, and its first go() builds the tool schemas          *)
(***************************************************************************)

\* the base URLs: the two official endpoints, one in upper case, with a
\* port, with user information, a proxy, a proxy whose name starts like an
\* official one, '/v1', 'api.openai.com/v1' and ''
UrlPool ==
    { Url("https", TRUE, "", "api.openai.com", "", "/v1"),
      Url("https", TRUE, "", "api.anthropic.com", "", "/v1"),
      Url("https", TRUE, "", "API.OpenAI.com", "", "/v1"),
      Url("https", TRUE, "", "api.openai.com", "443", "/v1"),
      Url("https", TRUE, "key", "api.openai.com", "", "/v1"),
      Url("https", TRUE, "", "my-proxy.com", "", "/v1"),
      Url("https", TRUE, "", "api.openai.com.my-proxy.com", "", "/v1"),
      Url("", FALSE, "", "", "", "/v1"),
      Url("", FALSE, "", "", "", "api.openai.com/v1"),
      EmptyUrl }

BaseUrls == {NoUrl} \cup {StrUrl(u) : u \in UrlPool}

\* None, 'openai:gpt-4o', 'gpt-4o', 'anthropic:claude', 'OpenAI:gpt-4o'
LlmIds ==
    { <<>>, <<"openai:", "gpt-4o">>, <<"gpt-4o">>, <<"anthropic:", "claude">>,
      <<"OpenAI:", "gpt-4o">> }

\* None, 'disabled', 'warn', 'strict'
SecurityModes == {"", "disabled", "warn", "strict"}

\* no cast, as_int(), as_lang(), as_lang('fr'), as_one('x'),
\* as_one('x', 'a', 'b'), and a cast_info of type 'date'
CastDecls ==
    { NoDecl,
      Decl("builder", "as_int", 0, ""),
      Decl("builder", "as_lang", 0, ""),
      Decl("builder", "as_lang", 1, ""),
      Decl("builder", "as_one", 1, ""),
      Decl("builder", "as_one", 3, ""),
      Decl("direct", "", 0, "date") }

CtorInit ==
    /\ kphase = "input"
    /\ kcfg \in [decl : CastDecls, on : {"normal", "conclude"},
                 llm : {"none", "given"}, llm_id : LlmIds,
                 base_url : BaseUrls, endpoint_security : SecurityModes]
    /\ kres = NoResult
    /\ CodecIdle
    /\ MergeIdle
    /\ ToolsIdle
    /\ ThreadsIdle
    /\ ConvIdle
    /\ SchemaIdle

\* chatfield().field(...).as_...(...).build()
CtorBuild ==
    /\ kphase = "input"
    /\ \E b \in {BuildCast(kcfg.decl)} :
           IF b.raised
           THEN /\ kphase' = "build_failed"
                /\ kres' = [kres EXCEPT !.error = "cast_sub_name"]
           ELSE /\ kphase' = "built"
                /\ kres' = [kres EXCEPT !.cast = b.cast]
    /\ UNCHANGED kcfg
    /\ UNCHANGED <<codecVars, mergeVars, toolVars, convVars, threadVars,
                   schemaVars>>

\* Interviewer(interview, llm=..., llm_id=..., base_url=...,
\* endpoint_security=...)
CtorConstruct ==
    /\ kphase = "built"
    /\ IF kcfg.llm = "none" /\ ~HasOpenaiPrefix(DefaultLlmId(kcfg.llm_id))
       THEN /\ kphase' = "construct_failed"
            /\ kres' = [kres EXCEPT !.error = "llm_id"]
       ELSE \E d \in {detect_dangerous_endpoint(
                          kcfg.base_url,
                          SecurityMode(kcfg.endpoint_security))} :
            IF d.raised
            THEN /\ kphase' = "construct_failed"
                 /\ kres' = [kres EXCEPT !.error = "security"]
            ELSE /\ kphase' = "constructed"
                 /\ kres' = [kres EXCEPT !.warnings = d.warnings,
                                         !.logged = d.logged,
                                         !.graph = TRUE]
    /\ UNCHANGED kcfg
    /\ UNCHANGED <<codecVars, mergeVars, toolVars, convVars, threadVars,
                   schemaVars>>

\* the first think of the first go(): llm_update_tool builds the schema of
\* every field that is not a conclude field, then the chat model is invoked
CtorThink ==
    /\ kphase = "constructed"
    /\ IF kcfg.on = "normal" /\ CastsDefinitionsRaise(kres.cast)
       THEN /\ kphase' = "go_failed"
            /\ kres' = [kres EXCEPT !.error = "cast_type"]
       ELSE /\ kphase' = "think"
            /\ kres' = [kres EXCEPT !.llm_calls = 1]
    /\ UNCHANGED kcfg
    /\ UNCHANGED <<codecVars, mergeVars, toolVars, convVars, threadVars,
                   schemaVars>>

\* digest_concludes: llm_conclude_tool builds the schema of every conclude
\* field, then the chat model is invoked
CtorDigestConcludes ==
    /\ kphase = "think"
    /\ kcfg.on = "conclude"
    /\ IF CastsDefinitionsRaise(kres.cast)
       THEN /\ kphase' = "go_failed"
            /\ kres' = [kres EXCEPT !.error = "cast_type"]
       ELSE /\ kphase' = "digest"
            /\ kres' = [kres EXCEPT !.llm_calls = 2]
    /\ UNCHANGED kcfg
    /\ UNCHANGED <<codecVars, mergeVars, toolVars, convVars, threadVars,
                   schemaVars>>

CtorNext == CtorBuild \/ CtorConstruct \/ CtorThink \/ CtorDigestConcludes

SpecConstruct == CtorInit /\ [][CtorNext]_vars

(***************************************************************************)
(* Specification SpecThreads: two Interviewers with distinct thread         *)
(* identifiers, each with its own checkpointer, run their conversations     *)
(* over an interview with one field; a conversation is kept by its log      *)
(* length, its field value and its digestion flags                          *)
(***************************************************************************)

\* thread-1 and thread-2
Threads == {1, 2}

\* go() rounds a conversation may take
MaxTurns == 2

\* the values the chat model may record for the field ("" is null)
ThreadValues == {"Ann", "Ben"}

\* self.interview of the Interviewer of thread t: each caller built its own
\* Interview (object t), or both were given one object, as InterviewSession
\* gives every session the module's interview
HandleOf(t) == IF xshared THEN 1 ELSE t

NewConversation ==
    [started |-> FALSE, ended |-> FALSE, turns |-> 0, messages |-> 0,
     value |-> "", has_digested |-> FALSE]

ThreadsInit ==
    /\ xshared \in BOOLEAN
    /\ xobj = [o \in Threads |-> ""]
    /\ xconv = [t \in Threads |-> NewConversation]
    /\ CodecIdle
    /\ MergeIdle
    /\ ToolsIdle
    /\ CtorIdle
    /\ ConvIdle
    /\ SchemaIdle

\* the first go() of thread t: initialize puts self.interview into the
\* state, think adds the system prompt and a reply, listen copies the state's
\* interview to self.interview
ThreadGoNew(t) ==
    /\ ~xconv[t].started
    /\ xconv' = [xconv EXCEPT ![t] =
                    [@ EXCEPT !.started = TRUE, !.turns = 1, !.messages = 2,
                              !.value = xobj[HandleOf(t)],
                              !.has_digested = FALSE]]
    /\ xobj' = [xobj EXCEPT ![HandleOf(t)] = xobj[HandleOf(t)]]
    /\ UNCHANGED xshared
    /\ UNCHANGED <<codecVars, mergeVars, toolVars, ctorVars, convVars,
                   schemaVars>>

\* a later go() of thread t in which the chat model records value v: the
\* user's message, the tool call, its result and the reply join the log, the
\* digestion runs when it has not, listen copies to self.interview
ThreadGoUpdate(t, v) ==
    /\ xconv[t].started
    /\ ~xconv[t].ended
    /\ xconv[t].turns < MaxTurns
    /\ xconv' = [xconv EXCEPT ![t] =
                    [@ EXCEPT !.turns = @ + 1, !.messages = @ + 4,
                              !.value = v, !.has_digested = TRUE]]
    /\ xobj' = [xobj EXCEPT ![HandleOf(t)] = v]
    /\ UNCHANGED xshared
    /\ UNCHANGED <<codecVars, mergeVars, toolVars, ctorVars, convVars,
                   schemaVars>>

\* a later go() of thread t in which the chat model only replies: listen
\* copies the state's interview to self.interview
ThreadGoReply(t) ==
    /\ xconv[t].started
    /\ ~xconv[t].ended
    /\ xconv[t].turns < MaxTurns
    /\ xconv' = [xconv EXCEPT ![t] =
                    [@ EXCEPT !.turns = @ + 1, !.messages = @ + 2]]
    /\ xobj' = [xobj EXCEPT ![HandleOf(t)] = xconv[t].value]
    /\ UNCHANGED xshared
    /\ UNCHANGED <<codecVars, mergeVars, toolVars, ctorVars, convVars,
                   schemaVars>>

\* end() of thread t: teardown copies the state's interview to self.interview
ThreadEnd(t) ==
    /\ xconv[t].started
    /\ ~xconv[t].ended
    /\ xconv' = [xconv EXCEPT ![t] = [@ EXCEPT !.ended = TRUE]]
    /\ xobj' = [xobj EXCEPT ![HandleOf(t)] = xconv[t].value]
    /\ UNCHANGED xshared
    /\ UNCHANGED <<codecVars, mergeVars, toolVars, ctorVars, convVars,
                   schemaVars>>

ThreadsNext ==
    \E t \in Threads :
        \/ ThreadGoNew(t)
        \/ \E v \in ThreadValues : ThreadGoUpdate(t, v)
        \/ ThreadGoReply(t)
        \/ ThreadEnd(t)

SpecThreads == ThreadsInit /\ [][ThreadsNext]_vars

(***************************************************************************)
(* Specification SpecSchema: an interview gets its fields and the three     *)
(* tool schemas are built for it                                           *)
(***************************************************************************)

\* the field names: 'q', 'a.b', 'r', '..' and '._PCT2E_'
SchemaNames ==
    { F_NORMAL, F_CONFIDENTIAL, F_CONCLUDE, <<46, 46>>,
      <<46, 95, 80, 67, 84, 50, 69, 95>> }

\* the fields of an interview, at most
MaxFields == 3

SchemaInit ==
    /\ sphase = "input"
    /\ sfields = <<>>
    /\ sschema = NoSchemas
    /\ CodecIdle
    /\ MergeIdle
    /\ ToolsIdle
    /\ CtorIdle
    /\ ThreadsIdle
    /\ ConvIdle

\* .field(name), plain, .confidential() or .conclude(), with or without a
\* value recorded so far
SchemaAddField ==
    /\ sphase = "input"
    /\ Len(sfields) < MaxFields
    /\ \E name \in SchemaNames, kind \in {"normal", "confidential", "conclude"},
          value \in {PyNone, NaturalAlice} :
           /\ \A i \in 1..Len(sfields) : sfields[i].name # name
           /\ sfields' = Append(sfields,
                  [name |-> name,
                   confidential |-> kind \in {"confidential", "conclude"},
                   conclude |-> kind = "conclude",
                   value |-> value])
    /\ UNCHANGED <<sphase, sschema>>
    /\ UNCHANGED <<codecVars, mergeVars, toolVars, ctorVars, convVars,
                   threadVars>>

\* the three schemas are built
SchemaBuild ==
    /\ sphase = "input"
    /\ sphase' = "built"
    /\ sschema' = [update |-> update_args_schema(sfields),
                   conclude |-> conclude_args_schema(sfields),
                   confidential |-> confidential_args_schema(sfields)]
    /\ UNCHANGED sfields
    /\ UNCHANGED <<codecVars, mergeVars, toolVars, ctorVars, convVars,
                   threadVars>>

SchemaNext == SchemaAddField \/ SchemaBuild

SpecSchema == SchemaInit /\ [][SchemaNext]_vars

(***************************************************************************)
(* Specification Spec: one conversation driven by go()                     *)
(***************************************************************************)

\* the interview definitions a conversation is started with
Definitions ==
    { {}, {F_NORMAL}, {F_CONFIDENTIAL}, {F_NORMAL, F_CONFIDENTIAL},
      {F_NORMAL, F_CONCLUDE}, {F_NORMAL, F_CONFIDENTIAL, F_CONCLUDE} }

\* chat model invocations per conversation, at most
MaxLLM == 4

Init ==
    /\ defn \in Definitions
    /\ handle = BuildInterview(defn)
    /\ interview = EmptyInterview
    /\ messages = <<>>
    /\ has_digested_confidentials = FALSE
    /\ has_digested_concludes = FALSE
    /\ pc = "START"
    /\ call = "none"
    /\ resuming = FALSE
    /\ resume = NoInput
    /\ interrupts = <<>>
    /\ ret = [kind |-> "none", text |-> <<>>]
    /\ nLLM = 0
    /\ nConf = 0
    /\ nConcl = 0
    /\ CodecIdle
    /\ MergeIdle
    /\ ToolsIdle
    /\ CtorIdle
    /\ ThreadsIdle
    /\ SchemaIdle

\* an exception leaves the graph and go() and reaches the caller
Raise ==
    /\ call' = "none"
    /\ pc' = "failed"
    /\ ret' = [kind |-> "raised", text |-> <<>>]

\* a plausible slip: a first go() refuses a user input
GoNew_rejects_input ==
    /\ call = "none"
    /\ pc = "START"
    /\ messages = <<>>
    /\ \E u \in {NoInput, UserText} :
        /\ resume' = u
        /\ IF u = NoInput
           THEN call' = "go" /\ pc' = "initialize" /\ UNCHANGED ret
           ELSE Raise
    /\ interrupts' = <<>>
    /\ UNCHANGED <<defn, handle, interview, messages,
                   has_digested_confidentials, has_digested_concludes,
                   resuming, nLLM, nConf, nConcl>>
    /\ UNCHANGED <<codecVars, mergeVars, toolVars,
                   ctorVars, threadVars, schemaVars>>

\* go(user_input) on a thread with no messages: a new conversation
GoNew ==
    /\ call = "none"
    /\ pc = "START"
    /\ messages = <<>>
    /\ \E u \in {NoInput, UserText} :
        /\ resume' = u
        /\ messages' = add_messages(<<>>,
                IF u = NoInput THEN <<>> ELSE <<HumanMessage(1, u)>>)
    /\ call' = "go"
    /\ pc' = "initialize"
    /\ interrupts' = <<>>
    /\ UNCHANGED <<defn, handle, interview, has_digested_confidentials,
                   has_digested_concludes, resuming, ret, nLLM, nConf, nConcl>>
    /\ UNCHANGED <<codecVars, mergeVars, toolVars,
                   ctorVars, threadVars, schemaVars>>

\* go(user_input) on a thread with messages: resume the suspended listen
GoResume ==
    /\ call = "none"
    /\ pc = "listen"
    /\ messages # <<>>
    /\ \E u \in {NoInput, UserText} : resume' = u
    /\ call' = "go"
    /\ resuming' = TRUE
    /\ interrupts' = <<>>
    /\ UNCHANGED <<defn, handle, interview, messages,
                   has_digested_confidentials, has_digested_concludes, pc,
                   ret, nLLM, nConf, nConcl>>
    /\ UNCHANGED <<codecVars, mergeVars, toolVars,
                   ctorVars, threadVars, schemaVars>>

\* node initialize: the caller's interview reaches the state through the
\* reducer
Initialize ==
    /\ call = "go"
    /\ pc = "initialize"
    /\ LET m == merge_interviews(interview, handle) IN
       IF StateInterviewBad(interview) \/ ~m.ok
       THEN Raise /\ UNCHANGED interview
       ELSE /\ interview' = m.val
            /\ pc' = "think"
            /\ UNCHANGED <<call, ret>>
    /\ UNCHANGED <<defn, handle, messages, has_digested_confidentials,
                   has_digested_concludes, resuming, resume, interrupts,
                   nLLM, nConf, nConcl>>
    /\ UNCHANGED <<codecVars, mergeVars, toolVars,
                   ctorVars, threadVars, schemaVars>>

\* node think, when _get_state_interview raises
ThinkRaise ==
    /\ call = "go"
    /\ pc = "think"
    /\ StateInterviewBad(interview)
    /\ Raise
    /\ UNCHANGED <<defn, handle, interview, messages,
                   has_digested_confidentials, has_digested_concludes,
                   resuming, resume, interrupts, nLLM, nConf, nConcl>>
    /\ UNCHANGED <<codecVars, mergeVars, toolVars,
                   ctorVars, threadVars, schemaVars>>

\* node think and route_from_think
Think ==
    /\ call = "go"
    /\ pc = "think"
    /\ ~StateInterviewBad(interview)
    /\ nLLM < MaxLLM
    /\ LET first == prior_system_messages(messages) = <<>>
           n == Len(messages)
           new_system_messages ==
               IF first THEN <<SystemMessage(n + 1, "system-prompt")>>
               ELSE <<>>
           id == n + Len(new_system_messages) + 1 IN
       \E reply \in LLMReplies(id, ThinkBindsTool(messages), "update",
                               UpdateToolKeys(interview)) :
           LET new_messages == new_system_messages \o <<reply, reply>>
               log == add_messages(messages, new_messages) IN
           /\ messages' = log
           /\ IF route_from_think(log) = "raise"
              THEN Raise
              ELSE pc' = route_from_think(log) /\ UNCHANGED <<call, ret>>
    /\ nLLM' = nLLM + 1
    /\ UNCHANGED <<defn, handle, interview, has_digested_confidentials,
                   has_digested_concludes, resuming, resume, interrupts,
                   nConf, nConcl>>
    /\ UNCHANGED <<codecVars, mergeVars, toolVars,
                   ctorVars, threadVars, schemaVars>>

\* a plausible slip: the reducer is handed a snapshot of the interview taken
\* before the node ran, instead of the object the node mutated
Tools_reducer_sees_prior_snapshot ==
    /\ call = "go"
    /\ pc = "tools"
    /\ \E r \in {tools(interview, messages)} :
       \E m \in {IF r.update THEN merge_interviews(interview, r.iv)
                 ELSE MergeOk(r.iv)} :
       IF r.raised
       THEN Raise /\ UNCHANGED <<interview, messages>>
       ELSE IF ~m.ok
       THEN Raise /\ UNCHANGED <<interview, messages>>
       ELSE /\ interview' = m.val
            /\ messages' = add_messages(messages, r.out)
            /\ pc' = route_from_tools(m.val, has_digested_confidentials,
                                      has_digested_concludes)
            /\ UNCHANGED <<call, ret>>
    /\ UNCHANGED <<defn, handle, has_digested_confidentials,
                   has_digested_concludes, resuming, resume, interrupts,
                   nLLM, nConf, nConcl>>
    /\ UNCHANGED <<codecVars, mergeVars, toolVars,
                   ctorVars, threadVars, schemaVars>>

\* node tools and route_from_tools
Tools ==
    /\ call = "go"
    /\ pc = "tools"
    /\ \E r \in {tools(interview, messages)} :
       \* the node mutated the state's interview in place and returns that
       \* same object when its dump changed
       \E m \in {IF r.update THEN merge_interviews(r.iv, r.iv)
                 ELSE MergeOk(r.iv)} :
       IF r.raised
       THEN Raise /\ UNCHANGED <<interview, messages>>
       ELSE IF ~m.ok
       THEN Raise /\ UNCHANGED <<interview, messages>>
       ELSE /\ interview' = m.val
            /\ messages' = add_messages(messages, r.out)
            /\ pc' = route_from_tools(m.val, has_digested_confidentials,
                                      has_digested_concludes)
            /\ UNCHANGED <<call, ret>>
    /\ UNCHANGED <<defn, handle, has_digested_confidentials,
                   has_digested_concludes, resuming, resume, interrupts,
                   nLLM, nConf, nConcl>>
    /\ UNCHANGED <<codecVars, mergeVars, toolVars,
                   ctorVars, threadVars, schemaVars>>

\* node digest_confidentials with no confidential field left to ask about
DigestConfidentialsNone ==
    /\ call = "go"
    /\ pc = "digest_confidentials"
    /\ ~StateInterviewBad(interview)
    /\ UnsetConfidentials(interview) = {}
    /\ has_digested_confidentials' =
           merge_has_digested(has_digested_confidentials, TRUE)
    /\ nConf' = nConf + 1
    /\ IF route_from_digest(interview, messages, has_digested_concludes) = "raise"
       THEN Raise
       ELSE /\ pc' = route_from_digest(interview, messages,
                                       has_digested_concludes)
            /\ UNCHANGED <<call, ret>>
    /\ UNCHANGED <<defn, handle, interview, messages, has_digested_concludes,
                   resuming, resume, interrupts, nLLM, nConcl>>
    /\ UNCHANGED <<codecVars, mergeVars, toolVars,
                   ctorVars, threadVars, schemaVars>>

\* a plausible slip: the node itself marks the unset confidential fields as
\* declined
DigestConfidentials_writes_declined ==
    /\ call = "go"
    /\ pc = "digest_confidentials"
    /\ ~StateInterviewBad(interview)
    /\ UnsetConfidentials(interview) # {}
    /\ nLLM < MaxLLM
    /\ \E reply \in LLMReplies(Len(messages) + 2, TRUE, "updateConfidential",
                               ConfidentialToolKeys(interview)) :
           LET sys_msg == SystemMessage(Len(messages) + 1, "digest-confidential")
               log == add_messages(messages, <<sys_msg, reply>>) IN
           /\ messages' = log
           /\ pc' = route_from_digest(interview, log, has_digested_concludes)
    /\ has_digested_confidentials' =
           merge_has_digested(has_digested_confidentials, TRUE)
    /\ nConf' = nConf + 1
    /\ nLLM' = nLLM + 1
    /\ UNCHANGED <<defn, handle, has_digested_concludes, call, ret,
                   resuming, resume, interrupts, nConcl>>
    /\ UNCHANGED <<codecVars, mergeVars, toolVars,
                   ctorVars, threadVars, schemaVars>>
    /\ interview' =
           [interview EXCEPT !.fields =
               [f \in DOMAIN interview.fields |->
                   IF f \in UnsetConfidentials(interview)
                   THEN NaturalDeclined ELSE interview.fields[f]]]

\* node digest_confidentials invoking the chat model
DigestConfidentials ==
    /\ call = "go"
    /\ pc = "digest_confidentials"
    /\ ~StateInterviewBad(interview)
    /\ UnsetConfidentials(interview) # {}
    /\ nLLM < MaxLLM
    /\ \E reply \in LLMReplies(Len(messages) + 2, TRUE, "updateConfidential",
                               ConfidentialToolKeys(interview)) :
           LET sys_msg == SystemMessage(Len(messages) + 1, "digest-confidential")
               log == add_messages(messages, <<sys_msg, reply>>) IN
           /\ messages' = log
           /\ pc' = route_from_digest(interview, log, has_digested_concludes)
    /\ has_digested_confidentials' =
           merge_has_digested(has_digested_confidentials, TRUE)
    /\ nConf' = nConf + 1
    /\ nLLM' = nLLM + 1
    /\ UNCHANGED <<defn, handle, interview, has_digested_concludes, call, ret,
                   resuming, resume, interrupts, nConcl>>
    /\ UNCHANGED <<codecVars, mergeVars, toolVars,
                   ctorVars, threadVars, schemaVars>>

\* node digest_concludes with no conclude field
DigestConcludesNone ==
    /\ call = "go"
    /\ pc = "digest_concludes"
    /\ ~StateInterviewBad(interview)
    /\ ConcludeFieldsPrompt(interview) = {}
    /\ has_digested_concludes' =
           merge_has_digested(has_digested_concludes, TRUE)
    /\ nConcl' = nConcl + 1
    /\ IF route_from_digest(interview, messages, TRUE) = "raise"
       THEN Raise
       ELSE /\ pc' = route_from_digest(interview, messages, TRUE)
            /\ UNCHANGED <<call, ret>>
    /\ UNCHANGED <<defn, handle, interview, messages,
                   has_digested_confidentials, resuming, resume, interrupts,
                   nLLM, nConf>>
    /\ UNCHANGED <<codecVars, mergeVars, toolVars,
                   ctorVars, threadVars, schemaVars>>

\* node digest_concludes invoking the chat model
DigestConcludes ==
    /\ call = "go"
    /\ pc = "digest_concludes"
    /\ ~StateInterviewBad(interview)
    /\ ConcludeFieldsPrompt(interview) # {}
    /\ nLLM < MaxLLM
    /\ \E reply \in LLMReplies(Len(messages) + 2, TRUE, "conclude",
                               ConcludeToolKeys(interview)) :
           LET sys_msg == SystemMessage(Len(messages) + 1, "digest-conclude")
               log == add_messages(messages, <<sys_msg, reply>>) IN
           /\ messages' = log
           /\ pc' = route_from_digest(interview, log, TRUE)
    /\ has_digested_concludes' =
           merge_has_digested(has_digested_concludes, TRUE)
    /\ nConcl' = nConcl + 1
    /\ nLLM' = nLLM + 1
    /\ UNCHANGED <<defn, handle, interview, has_digested_confidentials, call,
                   ret, resuming, resume, interrupts, nConf>>
    /\ UNCHANGED <<codecVars, mergeVars, toolVars,
                   ctorVars, threadVars, schemaVars>>

\* node listen reached in this round: it copies the state to the handle and
\* interrupts with the feedback
Listen ==
    /\ call = "go"
    /\ pc = "listen"
    /\ ~resuming
    /\ ~StateInterviewBad(interview)
    /\ handle' = CopyFrom(interview)
    /\ IF messages = <<>> \/ LastMessage(messages).type # "ai"
       THEN Raise /\ UNCHANGED interrupts
       ELSE /\ interrupts' = Append(interrupts, ListenFeedback(messages))
            /\ pc' = "interrupted"
            /\ UNCHANGED <<call, ret>>
    /\ UNCHANGED <<defn, interview, messages, has_digested_confidentials,
                   has_digested_concludes, resuming, resume, nLLM, nConf,
                   nConcl>>
    /\ UNCHANGED <<codecVars, mergeVars, toolVars,
                   ctorVars, threadVars, schemaVars>>

\* node listen re-run with the resume value: the user's message joins the log
ListenResume ==
    /\ call = "go"
    /\ pc = "listen"
    /\ resuming
    /\ ~StateInterviewBad(interview)
    /\ handle' = CopyFrom(interview)
    /\ IF \/ messages = <<>>
          \/ LastMessage(messages).type # "ai"
          \/ resume = NoInput
       THEN Raise /\ UNCHANGED messages
       ELSE /\ messages' = add_messages(messages,
                               <<HumanMessage(Len(messages) + 1, resume)>>)
            /\ pc' = "think"
            /\ UNCHANGED <<call, ret>>
    /\ resuming' = FALSE
    /\ UNCHANGED <<defn, interview, has_digested_confidentials,
                   has_digested_concludes, resume, interrupts, nLLM, nConf,
                   nConcl>>
    /\ UNCHANGED <<codecVars, mergeVars, toolVars,
                   ctorVars, threadVars, schemaVars>>

\* the end of go(): the stream is over, the interrupts are counted
GoFinish ==
    /\ call = "go"
    /\ pc = "interrupted"
    /\ IF Len(interrupts) # 1
       THEN Raise
       ELSE /\ ret' = [kind |-> "returned", text |-> interrupts[1]]
            /\ call' = "none"
            /\ pc' = "listen"
    /\ UNCHANGED <<defn, handle, interview, messages,
                   has_digested_confidentials, has_digested_concludes,
                   resuming, resume, interrupts, nLLM, nConf, nConcl>>
    /\ UNCHANGED <<codecVars, mergeVars, toolVars,
                   ctorVars, threadVars, schemaVars>>

\* end() on a conversation suspended at listen: Command(goto='teardown').
\* (end() on a thread that has not started, and go() after end(), are left
\* out.)
End ==
    /\ call = "none"
    /\ pc = "listen"
    /\ call' = "end"
    /\ pc' = "teardown"
    /\ UNCHANGED <<defn, handle, interview, messages,
                   has_digested_confidentials, has_digested_concludes,
                   resuming, resume, interrupts, ret, nLLM, nConf, nConcl>>
    /\ UNCHANGED <<codecVars, mergeVars, toolVars,
                   ctorVars, threadVars, schemaVars>>

\* node teardown: the state's interview is copied to the caller's handle and
\* the graph ends
Teardown ==
    /\ pc = "teardown"
    /\ IF StateInterviewBad(interview)
       THEN Raise /\ UNCHANGED handle
       ELSE /\ handle' = CopyFrom(interview)
            /\ pc' = "END"
            /\ call' = "none"
            /\ ret' = [kind |-> "ended", text |-> <<>>]
    /\ UNCHANGED <<defn, interview, messages, has_digested_confidentials,
                   has_digested_concludes, resuming, resume, interrupts,
                   nLLM, nConf, nConcl>>
    /\ UNCHANGED <<codecVars, mergeVars, toolVars,
                   ctorVars, threadVars, schemaVars>>

Next ==
    \/ GoNew
    \/ GoResume
    \/ Initialize
    \/ ThinkRaise
    \/ Think
    \/ Tools
    \/ DigestConfidentialsNone
    \/ DigestConfidentials
    \/ DigestConcludesNone
    \/ DigestConcludes
    \/ Listen
    \/ ListenResume
    \/ GoFinish
    \/ End
    \/ Teardown

Spec == Init /\ [][Next]_vars

(***************************************************************************)
(* Claims                                                                  *)
(***************************************************************************)

\* C1: decode_field_name(encode_field_name(s)) = s for every field name s
\* (plain, Unicode, empty, 'field_'-prefixed, keyword, or built from the
\* characters escape tokens are made of).
C1_RoundTrip ==
    cphase = "decoded" => (cdec1.ok /\ cdec1.text = cname1)

\* C2: two distinct field names never encode to the same identifier.
C2_Injective ==
    (cphase # "input" /\ cname1 # cname2) => cenc1 # cenc2

\* the tool messages of a log
ToolMessagesOf(msgs) == {i \in 1..Len(msgs) : msgs[i].type = "tool"}

\* C3: in one conversation digest_confidentials executes at most once and
\* digest_concludes executes at most once, whatever the chat model answers
\* and however many rounds follow.
C3_DigestAtMostOnce == nConf <= 1 /\ nConcl <= 1

\* both digests have run, and a later tools step found enough true again and
\* went back to think
C3_Witness ==
    /\ nConf = 1
    /\ nConcl = 1
    /\ pc = "think"
    /\ Enough(interview)
    /\ messages # <<>>
    /\ LastMessage(messages).type = "tool"
    /\ \E i \in ToolMessagesOf(messages) :
           /\ i + 1 < Len(messages)
           /\ messages[i + 1].type # "tool"

\* C4: no tool call is dropped: an assistant message that carries tool calls
\* is answered by a tool result before anything else joins the log, so the
\* chat model is never invoked again over an unanswered call.
C4_NoToolCallDropped ==
    \A i \in 1..Len(messages) :
        (messages[i].type = "ai" /\ messages[i].calls # <<>> /\ i < Len(messages))
            => messages[i + 1].type = "tool"

\* C5: has_digested_confidentials implies every confidential non-conclude
\* field has a value, has_digested_concludes implies every conclude field
\* has a value.
C5_FlagMeansResolved ==
    /\ has_digested_confidentials =>
           \A f \in FieldNames(interview) :
               (SpecConfidential(f) /\ ~SpecConclude(f))
                   => interview.fields[f].t # "none"
    /\ has_digested_concludes =>
           \A f \in FieldNames(interview) :
               SpecConclude(f) => interview.fields[f].t # "none"

\* what one entry of a snapshot holds in a and in b: the scalars, each trait
\* of the list, each field's value and, where both hold a value object, each
\* key of it
LeafPairs(a, b) ==
    { <<"type", a.type, b.type>>, <<"role", a.alice, b.alice>>,
      <<"role", a.bob, b.bob>>, <<"flag", a.active, b.active>> }
    \cup { <<"item", IF x \in a.traits THEN PyStr(x) ELSE PyAbsent,
                     IF x \in b.traits THEN PyStr(x) ELSE PyAbsent>> :
               x \in a.traits \cup b.traits }
    \cup UNION {
           IF a.fields[f].t = "dict" /\ b.fields[f].t = "dict"
           THEN { <<"value",
                    IF k \in DictKeys(a.fields[f]) THEN DictGet(a.fields[f], k)
                    ELSE PyAbsent,
                    IF k \in DictKeys(b.fields[f]) THEN DictGet(b.fields[f], k)
                    ELSE PyAbsent>> :
                      k \in DictKeys(a.fields[f]) \cup DictKeys(b.fields[f]) }
           ELSE { <<"value", a.fields[f], b.fields[f]>> } :
               f \in FieldPool }

IsNull(x) == x.t = "none"
IsGone(x) == x.t = "absent"
IsDefaultRole(x) == x \in {PyStr("Agent"), PyStr("User")}

\* the changes both readings accept: nothing changed, null became non-null,
\* a default role label was replaced, an entry was added
PlainlyAccepted(l) ==
    \/ l[2] = l[3]
    \/ IsGone(l[2])
    \/ IsNull(l[2]) /\ ~IsNull(l[3]) /\ ~IsGone(l[3])
    \/ l[1] = "role" /\ IsDefaultRole(l[2]) /\ ~IsNull(l[3]) /\ ~IsGone(l[3])

\* C6 as stated: the merge of a into b is accepted only if every change is
\* null becoming non-null, a falsy flag becoming truthy, a default role label
\* replaced, or an added entry; any other change raises.
C6_AsStated ==
    (mphase = "merged" /\ mta = mtb) =>
        (mres.ok <=>
            \A l \in LeafPairs(ma, mb) :
                \/ PlainlyAccepted(l)
                \/ l[1] = "flag" /\ ~Truthy(l[2]) /\ Truthy(l[3]))

\* C6: the merge of a into b is accepted exactly when every change is null
\* becoming non-null, a falsy value (a flag or any other, such as an empty
\* text) becoming a truthy value of the same type, a default role label
\* replaced, or an added entry; it raises when some change is a truthy value
\* changing, a value becoming falsy, a value reverting to null or a removed
\* entry.
C6_MergeAccepts ==
    (mphase = "merged" /\ mta = mtb) =>
        (mres.ok <=>
            \A l \in LeafPairs(ma, mb) :
                \/ PlainlyAccepted(l)
                \/ l[2].t = l[3].t /\ ~Truthy(l[2]) /\ Truthy(l[3]))

\* a value object holding an empty text was replaced by one holding a text,
\* and the merge accepted it
C6_Witness ==
    /\ mphase = "merged"
    /\ mta = mtb
    /\ mres.ok
    /\ ma.fields[F_NORMAL] = NaturalDeclined
    /\ mb.fields[F_NORMAL] = NaturalAlice

\* a and b differ only by fields populated in one and null in the other
DifferOnlyByPopulated(a, b) ==
    /\ [a EXCEPT !.fields = b.fields] = b
    /\ \A f \in FieldPool :
           \/ a.fields[f] = b.fields[f]
           \/ a.fields[f].t = "none" /\ b.fields[f].t = "dict"
           \/ a.fields[f].t = "dict" /\ b.fields[f].t = "none"

\* C7: when a and b differ only by fields populated in one and null in the
\* other, merge_interviews(a, b) yields a snapshot that holds every field
\* populated in a or in b with its value.
C7_MergeMonotonic ==
    (mphase = "merged" /\ mta = mtb /\ DifferOnlyByPopulated(ma, mb)) =>
        /\ mres.ok
        /\ \A f \in FieldPool :
               /\ ma.fields[f].t = "dict" => mres.val.fields[f] = ma.fields[f]
               /\ mb.fields[f].t = "dict" => mres.val.fields[f] = mb.fields[f]

\* C8: once the interview is initialized, no step takes enough or done from
\* true to false, and no step takes a field that has a value back to null;
\* the same holds of the caller's handle.
C8_CompletenessMonotonic ==
    [][ /\ \A f \in FieldPool :
               /\ interview.fields[f].t = "dict"
                      => interview'.fields[f].t = "dict"
               /\ handle.fields[f].t = "dict" => handle'.fields[f].t = "dict"
        /\ (FieldNames(interview) # {} /\ Enough(interview))
               => Enough(interview')
        /\ (FieldNames(interview) # {} /\ Done(interview)) => Done(interview')
        /\ Enough(handle) => Enough(handle')
        /\ Done(handle) => Done(handle') ]_vars

\* done is true, and a tool update arrived after an earlier one had been
\* answered: it overwrote or skipped fields that already had a value
C8_Witness ==
    /\ FieldNames(interview) # {}
    /\ Done(interview)
    /\ messages # <<>>
    /\ LastMessage(messages).type = "tool"
    /\ LastMessage(messages).content = SUCCESS
    /\ \E i \in ToolMessagesOf(messages) :
           i < Len(messages) /\ messages[i].content = SUCCESS

HasValue(iv, f) == iv.fields[f].t = "dict"
Missing(iv, f) == iv.fields[f].t = "absent"

\* C9: enough is true exactly when every field that is neither confidential
\* nor conclude has a value, done exactly when every field has a value; so
\* done implies enough, an interview of confidential and conclude fields only
\* is enough, and an interview without fields is both.
C9_EnoughAndDone ==
    \A iv \in {interview, handle} :
        /\ Enough(iv) <=> (Missing(iv, F_NORMAL) \/ HasValue(iv, F_NORMAL))
        /\ Done(iv) <=> \A f \in FieldPool : Missing(iv, f) \/ HasValue(iv, f)
        /\ Done(iv) => Enough(iv)
        /\ Missing(iv, F_NORMAL) => Enough(iv)
        /\ (\A f \in FieldPool : Missing(iv, f)) => (Enough(iv) /\ Done(iv))

\* the conversation has all three kinds of field, the normal one has a value
\* and the conclude one has none: enough without done
C9_Witness ==
    /\ defn = FieldPool
    /\ Enough(interview)
    /\ ~Done(interview)
    /\ HasValue(interview, F_NORMAL)
    /\ ~HasValue(interview, F_CONCLUDE)

\* the latest assistant message of a log
LatestAssistant(msgs) ==
    msgs[CHOOSE i \in 1..Len(msgs) :
             /\ msgs[i].type = "ai"
             /\ \A j \in (i + 1)..Len(msgs) : msgs[j].type # "ai"]

C12_AsStated ==
    (defn = {F_NORMAL} /\ Done(interview)) =>
        pc \notin {"think", "listen", "interrupted"}

\* C12: teardown is never reached implicitly: it runs only inside end().
\* For an interview with one non-confidential field, after the update tool
\* call has set it (done is true) the graph goes on to think and suspends at
\* listen, and a go() that returns leaves the conversation suspended at
\* listen, ready for another turn.
C12_TeardownOnlyOnEnd ==
    /\ pc = "teardown" => call = "end"
    /\ call = "go" => pc \notin {"teardown", "END"}
    /\ (call = "none" /\ ret.kind = "returned") => pc = "listen"

\* the one field has its value, and after that tool result a further go()
\* took the user's message through think to listen and returned
C12_Witness ==
    /\ defn = {F_NORMAL}
    /\ Done(interview)
    /\ interview.fields[F_NORMAL] = NaturalAlice
    /\ call = "none"
    /\ ret.kind = "returned"
    /\ \E i \in ToolMessagesOf(messages) :
           \E j \in (i + 1)..Len(messages) : messages[j].type = "human"

\* C13: for an interview definition with no fields, enough and done are true
\* after initialize, and the first go(null) invokes no chat model and raises
\* no error.
C13_EmptyInterviewGoes ==
    defn = {} =>
        /\ Enough(interview)
        /\ Done(interview)
        /\ nLLM = 0
        /\ ret.kind # "raised"

\* the tool calls of the message handed to the tools node
GivenCalls == tmsgs[1].calls

\* the tool calls whose first entry is a value object for the normal field
WritesOfNormal ==
    {i \in 1..Len(GivenCalls) :
        /\ GivenCalls[i].args # <<>>
        /\ GivenCalls[i].args[1][1] = encode_field_name(F_NORMAL)
        /\ GivenCalls[i].args[1][2].t = "dict"}

LastWriteOfNormal ==
    CHOOSE i \in WritesOfNormal : \A j \in WritesOfNormal : j <= i

\* LegacyValue with every key in its canonical form
CanonicalValue ==
    PyDict({ << <<"value">>, "Alice" >>,
             << <<"as_one_", "x">>, "a" >>,
             << <<"as_maybe_", "x">>, "b" >>,
             << <<"as_multi_", "x">>, "c" >>,
             << <<"as_any_", "x">>, "d" >>,
             << <<"as_one_", "y">>, "e" >>,
             << <<"as_one_", "choose_zero_or_one_", "z">>, "f" >> })

\* what a field holds once a value object has been stored in it
ExpectedStored(v) == IF v = LegacyValue THEN CanonicalValue ELSE v

\* C15: for an assistant message with n tool calls the tools node returns n
\* tool messages in call order, each with the name and id of its call ('' for
\* a call without id) and content 'Success' or an error report; a failing
\* call raises nothing out of the node and the calls after it are applied.
C15_ToolResults ==
    (tphase = "done" /\ GivenCalls # <<>>) =>
        /\ ~tres.raised
        /\ Len(tres.out) = Len(GivenCalls)
        /\ \A i \in 1..Len(GivenCalls) :
               /\ tres.out[i].type = "tool"
               /\ tres.out[i].id = Len(tmsgs) + i
               /\ tres.out[i].kind = GivenCalls[i].name
               /\ tres.out[i].tool_call_id =
                      (IF GivenCalls[i].id = PyNone THEN ""
                       ELSE GivenCalls[i].id.v)
               /\ tres.out[i].content \in {SUCCESS, ERROR}
               /\ GivenCalls[i].args = << <<UnknownKey, NaturalAlice>> >>
                      => tres.out[i].content = ERROR
               /\ GivenCalls[i].args =
                      << <<encode_field_name(F_NORMAL), NaturalAlice>> >>
                      => tres.out[i].content = SUCCESS
        /\ WritesOfNormal # {} =>
               tres.iv.fields[F_NORMAL] =
                   ExpectedStored(GivenCalls[LastWriteOfNormal].args[1][2])

\* the first tool call failed and the second was applied and answered
C15_Witness ==
    /\ tphase = "done"
    /\ Len(GivenCalls) = 2
    /\ tres.out[1].content = ERROR
    /\ tres.out[2].content = SUCCESS
    /\ tiv.fields[F_NORMAL] = PyNone
    /\ tres.iv.fields[F_NORMAL] = NaturalAlice

\* C16: after a value object is applied to a field, the field holds exactly
\* the normalized keys and values of that object and nothing of its prior
\* value: the last applied write wins.
C16_WholesaleReplace ==
    (tphase = "done" /\ WritesOfNormal # {}) =>
        tres.iv.fields[F_NORMAL] =
            ExpectedStored(GivenCalls[LastWriteOfNormal].args[1][2])

\* a field that held a value with a cast result was written twice, and holds
\* the second value alone
C16_Witness ==
    /\ tphase = "done"
    /\ tiv.fields[F_NORMAL] = AliceWithCast
    /\ Len(GivenCalls) = 2
    /\ WritesOfNormal = {1, 2}
    /\ GivenCalls[1].args[1][2] = LegacyValue
    /\ GivenCalls[2].args[1][2] = NaturalBob
    /\ tres.iv.fields[F_NORMAL] = NaturalBob

\* the fields for which some tool call has a non-null entry
FieldsWithEntry ==
    {f \in FieldPool :
        \E i \in 1..Len(GivenCalls) :
            \E j \in 1..Len(GivenCalls[i].args) :
                /\ GivenCalls[i].args[j][1] = encode_field_name(f)
                /\ GivenCalls[i].args[j][2] # PyNone}

\* C17: a field with no entry or only null entries in the tool calls keeps
\* its value, and tool calls whose entries are all null change no field and
\* put no interview in the state update.
C17_NullEntriesIgnored ==
    (tphase = "done" /\ ~tres.raised) =>
        /\ \A f \in FieldPool \ FieldsWithEntry :
               tres.iv.fields[f] = tiv.fields[f]
        /\ (\A i \in 1..Len(GivenCalls) :
                \A j \in 1..Len(GivenCalls[i].args) :
                    GivenCalls[i].args[j][2] = PyNone)
               => (tres.iv = tiv /\ ~tres.update)

\* a tool call whose only entry is null met a field that has a value: the
\* value stayed and the state got no interview update
C17_Witness ==
    /\ tphase = "done"
    /\ Len(GivenCalls) = 1
    /\ GivenCalls[1].args = << <<encode_field_name(F_NORMAL), PyNone>> >>
    /\ tiv.fields[F_NORMAL] = NaturalBob
    /\ tres.iv = tiv
    /\ ~tres.update
    /\ tres.out[1].content = SUCCESS

C19_ToolsThenDigestConfidentials ==
    [][ (pc = "tools" /\ call' = "go" /\ Enough(interview')
             /\ ~has_digested_confidentials')
            => pc' = "digest_confidentials" ]_vars

\* the tools node has just recorded the last required field, a confidential
\* field is still unset, and digest_confidentials is next
C19_Witness ==
    /\ call = "go"
    /\ pc = "digest_confidentials"
    /\ LastMessage(messages).type = "tool"
    /\ LastMessage(messages).content = SUCCESS
    /\ Enough(interview)
    /\ ~has_digested_confidentials
    /\ UnsetConfidentials(interview) # {}

\* C20: a message without tool calls where a tool call was required, as the
\* input of the tools node or as the chat model's reply to a digestion
\* instruction, ends go() with an exception.
C20_NonToolCallIsFatal ==
    /\ [][ (pc = "tools" /\ LastMessage(messages).calls = <<>>)
               => ret'.kind = "raised" ]_vars
    /\ [][ (/\ pc \in {"digest_confidentials", "digest_concludes"}
            /\ messages' # messages
            /\ LastMessage(messages').calls = <<>>)
               => (call' = "none" /\ ret'.kind = "raised") ]_vars

\* the positions of the log that hold a system prompt synthesized by think
ThinkPrompts(msgs) ==
    {i \in 1..Len(msgs) :
        msgs[i].type = "system" /\ msgs[i].kind = "system-prompt"}

\* the positions of the log that hold a digestion instruction
DigestPrompts(msgs) ==
    {i \in 1..Len(msgs) :
        msgs[i].type = "system" /\ msgs[i].kind # "system-prompt"}

\* C21: the log never holds more than one system prompt synthesized by
\* think, it holds exactly one once think has produced a reply, and a think
\* step that finds a system message in the log adds no system prompt.
C21_OneSystemPrompt ==
    /\ [](/\ Cardinality(ThinkPrompts(messages)) <= 1
          /\ nLLM > 0 => Cardinality(ThinkPrompts(messages)) = 1)
    /\ [][ (pc = "think" /\ prior_system_messages(messages) # <<>>)
               => ThinkPrompts(messages') = ThinkPrompts(messages) ]_vars

\* think has answered a user message that came after a digestion instruction,
\* and the log holds the one system prompt of the first turn
C21_Witness ==
    /\ pc = "listen"
    /\ call = "go"
    /\ LastMessage(messages).type = "ai"
    /\ Cardinality(ThinkPrompts(messages)) = 1
    /\ \E i \in DigestPrompts(messages) :
           \E j \in (i + 1)..Len(messages) : messages[j].type = "human"

\* C23: every step other than a tools step leaves the field values of the
\* conversation state as they were; initialize, which binds the definition,
\* gives every field the value it has in the caller's interview.
C23_OnlyToolsWritesFields ==
    [][ /\ pc \notin {"tools", "initialize"} => interview'.fields = interview.fields
        /\ pc = "initialize" => interview'.fields = handle.fields ]_vars

\* a conversation that went through think, tools, both digestions and listen
\* with a field holding a value
C23_Witness ==
    /\ pc = "interrupted"
    /\ has_digested_confidentials
    /\ has_digested_concludes
    /\ nConf = 1
    /\ nConcl = 1
    /\ \E f \in FieldNames(interview) : Truthy(interview.fields[f])

\* Interviewer(...) has been called
ConstructionAttempted ==
    kphase \in {"construct_failed", "constructed", "think", "digest",
                "go_failed"}

\* Interviewer(...) returned an Interviewer
Constructed == kphase \in {"constructed", "think", "digest", "go_failed"}

\* the model identifier is acceptable, or the caller brought the chat model
ModelIdAccepted ==
    kcfg.llm = "given" \/ kcfg.llm_id \in {<<>>, <<"openai:", "gpt-4o">>}

\* the host name of the configured base URL is on the denylist
HostDenylisted ==
    /\ kcfg.base_url.t = "str"
    /\ urlparse_hostname(kcfg.base_url.u) \in
           {PyStr("api.openai.com"), PyStr("api.anthropic.com")}

\* the endpoint is dangerous: a denylisted host, or no base URL at all
EndpointDangerous == HostDenylisted \/ kcfg.base_url = NoUrl

\* C24: under endpoint_security 'strict' a dangerous endpoint makes the
\* construction raise; no state graph is built and no chat model is invoked.
C24_StrictRejectsDangerous ==
    (/\ ConstructionAttempted
     /\ kcfg.endpoint_security = "strict"
     /\ EndpointDangerous)
        => (kphase = "construct_failed" /\ ~kres.graph /\ kres.llm_calls = 0)

\* strict mode refused an official endpoint given with a port, and refused a
\* missing base URL
C24_Witness ==
    /\ kphase = "construct_failed"
    /\ kres.error = "security"
    /\ kcfg.endpoint_security = "strict"
    /\ \/ kcfg.base_url.u.port = "443"
       \/ kcfg.base_url = NoUrl

\* C25: with a dangerous endpoint and an accepted model identifier, the
\* modes 'disabled' and none construct the Interviewer without a warning,
\* and 'warn' constructs it after one warning, which names the denylisted
\* host when there is one.
C25_OnlyStrictFails ==
    (ConstructionAttempted /\ EndpointDangerous /\ ModelIdAccepted) =>
        /\ kcfg.endpoint_security \in {"", "disabled"} =>
               (Constructed /\ kres.warnings = <<>>)
        /\ kcfg.endpoint_security = "warn" =>
               /\ Constructed
               /\ Len(kres.warnings) = 1
               /\ HostDenylisted =>
                      PyStr(kres.warnings[1].host) =
                          urlparse_hostname(kcfg.base_url.u)

\* warn mode constructed an Interviewer over the upper-case official
\* endpoint after one warning that names api.openai.com
C25_Witness ==
    /\ kphase = "constructed"
    /\ kcfg.endpoint_security = "warn"
    /\ kcfg.base_url.u.host = "API.OpenAI.com"
    /\ kres.warnings = <<[kind |-> "official", host |-> "api.openai.com"]>>

\* C26: a configured base URL without host name, or with a host name that
\* is not on the denylist, passes in every mode: with an accepted model
\* identifier the Interviewer is constructed and no warning is emitted.
C26_SafeEndpointPasses ==
    (/\ ConstructionAttempted
     /\ ModelIdAccepted
     /\ kcfg.base_url.t = "str"
     /\ ~HostDenylisted)
        => (Constructed /\ kres.warnings = <<>> /\ kres.graph)

\* strict mode constructed an Interviewer over '/v1' and over a proxy whose
\* name starts like an official endpoint
C26_Witness ==
    /\ kphase = "constructed"
    /\ kcfg.endpoint_security = "strict"
    /\ \/ kcfg.base_url.u = Url("", FALSE, "", "", "", "/v1")
       \/ kcfg.base_url.u.host = "api.openai.com.my-proxy.com"

\* C30: once an Interviewer has been constructed, a go() round raises no
\* configuration error.
C30_ConfigErrorsAtConstruction ==
    Constructed => kres.error = "none"

\* C27: a step of one conversation changes neither the log, the field
\* value and the digestion flags of the other conversation nor the field
\* value the other conversation's caller reads from its interview.
C27_ThreadsIsolated ==
    [][ \A t \in Threads : \A u \in Threads \ {t} :
            xconv'[t] # xconv[t] =>
                /\ xconv'[u] = xconv[u]
                /\ xobj'[HandleOf(u)] = xobj[HandleOf(u)] ]_vars

\* ASCII letters, digits and underscore, as the claim lists them
AsciiWordChars == (97..122) \cup (65..90) \cup (48..57) \cup {95}

\* a name that needs no encoding: not empty, only ASCII letters, digits and
\* underscore, no digit first, no reserved word, not starting with 'field_'
PlainName(n) ==
    /\ n # <<>>
    /\ \A i \in 1..Len(n) : n[i] \in AsciiWordChars
    /\ n[1] \notin 48..57
    /\ n \notin kwlist
    /\ ~(Len(n) >= 6 /\ SubSeq(n, 1, 6) = <<102, 105, 101, 108, 100, 95>>)

\* a valid identifier: not empty, only ASCII letters, digits and underscore,
\* no digit first, no reserved word
ValidIdentifier(e) ==
    /\ e # <<>>
    /\ \A i \in 1..Len(e) : e[i] \in AsciiWordChars
    /\ e[1] \notin 48..57
    /\ e \notin kwlist

\* what the claim says of one name and its encoding
EncodedAsStated(n, e) ==
    /\ (e = n) <=> PlainName(n)
    /\ ~PlainName(n) =>
           (Len(e) >= 6 /\ SubSeq(e, 1, 6) = <<102, 105, 101, 108, 100, 95>>)
    /\ ValidIdentifier(e)

\* C28: encode_field_name returns the name unchanged exactly when it is a
\* plain name, returns a result that begins with 'field_' otherwise, and
\* returns a valid identifier in every case.
C28_EncodeShape ==
    cphase \in {"encoded", "decoded"} =>
        (EncodedAsStated(cname1, cenc1) /\ EncodedAsStated(cname2, cenc2))

\* the reserved word 'if' and the name 'field_a' were both encoded with the
\* prefix
C28_Witness ==
    /\ cphase = "encoded"
    /\ cname1 = <<105, 102>>
    /\ cenc1 = FIELD_PREFIX \o <<105, 102>>
    /\ cname2 = FIELD_PREFIX \o <<97>>
    /\ cenc2 = FIELD_PREFIX \o FIELD_PREFIX \o <<97>>

\* the schema has one slot per selected field, under the field's encoded
\* name and with the given optionality, and no other slot
OneSlotPerField(schema, selected, optional) ==
    /\ Cardinality(schema) = Cardinality(selected)
    /\ \A i \in selected :
           \E p \in schema :
               /\ p[1] = encode_field_name(sfields[i].name)
               /\ p[2].field = sfields[i].name
               /\ p[2].optional = optional
               /\ \A q \in schema : q[2].field = sfields[i].name => q = p

\* C29: the update schema has one optional slot per non-conclude field, the
\* conclude schema one mandatory slot per conclude field, the confidential
\* schema one mandatory slot per confidential, non-conclude, unset field, and
\* none of them has another slot.
C29_SchemaSlots ==
    sphase = "built" =>
        /\ OneSlotPerField(sschema.update,
               {i \in 1..Len(sfields) : ~sfields[i].conclude}, TRUE)
        /\ OneSlotPerField(sschema.conclude,
               {i \in 1..Len(sfields) : sfields[i].conclude}, FALSE)
        /\ OneSlotPerField(sschema.confidential,
               {i \in 1..Len(sfields) :
                   /\ sfields[i].confidential
                   /\ ~sfields[i].conclude
                   /\ sfields[i].value = PyNone}, FALSE)

\* C31: the digestion phases are ordered: digest_concludes never runs while
\* has_digested_confidentials is false, digest_confidentials has run before
\* any digest_concludes, and has_digested_concludes implies
\* has_digested_confidentials
C31_DigestionOrdered ==
    /\ pc = "digest_concludes" => has_digested_confidentials
    /\ nConcl > 0 => nConf > 0
    /\ has_digested_concludes => has_digested_confidentials

C31_Witness ==
    /\ has_digested_concludes
    /\ has_digested_confidentials
    /\ nConcl > 0
    /\ nConf > 0

\* a go() round has returned and the conversation is suspended at listen
Suspended == call = "none" /\ pc = "listen" /\ ret.kind = "returned"

\* C32: no go() round suspends at listen in a state where enough is true and
\* has_digested_confidentials is still false, interviews with only
\* confidential or conclude fields included
C32_DigestionAtFirstEnough ==
    Suspended => ~(Enough(interview) /\ ~has_digested_confidentials)

\* the same, for the interviews that have a field that is neither
\* confidential nor conclude
C32_DigestionWhenEnoughBecomesTrue ==
    (Suspended /\ F_NORMAL \in defn) =>
        ~(Enough(interview) /\ ~has_digested_confidentials)

\* the tools node is about to run on one tool call whose single entry gives
\* field f, already set, a different non-null value v
OverwritingCall(f, v) ==
    /\ call = "go"
    /\ pc = "tools"
    /\ messages # <<>>
    /\ LastMessage(messages).type = "ai"
    /\ Len(LastMessage(messages).calls) = 1
    /\ LastMessage(messages).calls[1].args = << <<encode_field_name(f), v>> >>
    /\ v.t = "dict"
    /\ f \in FieldNames(interview)
    /\ interview.fields[f].t # "none"
    /\ interview.fields[f] # v

\* C33: a tools step whose tool call overwrites an already-set field with a
\* different non-null value completes with a 'Success' tool result and the
\* conversation state then holds the new value: the reducer does not reject
\* the overwrite
C33_LastWriteWins ==
    [][\A f \in FieldPool, v \in ArgValues :
          OverwritingCall(f, v) =>
              /\ pc' # "failed"
              /\ LastMessage(messages').type = "tool"
              /\ LastMessage(messages').content = SUCCESS
              /\ interview'.fields[f] = v]_vars

\* the log holds a successful write of 'Alice' to the normal field and a
\* later successful write of 'Bob', and the state holds 'Bob'
C33_Witness ==
    /\ F_NORMAL \in FieldNames(interview)
    /\ interview.fields[F_NORMAL] = NaturalBob
    /\ \E i, j \in 1..Len(messages) :
        /\ i < j
        /\ j < Len(messages)
        /\ messages[i].type = "ai"
        /\ messages[i].calls # <<>>
        /\ messages[i].calls[1].args =
               << <<encode_field_name(F_NORMAL), NaturalAlice>> >>
        /\ messages[i + 1].type = "tool"
        /\ messages[i + 1].content = SUCCESS
        /\ messages[j].type = "ai"
        /\ messages[j].calls # <<>>
        /\ messages[j].calls[1].args =
               << <<encode_field_name(F_NORMAL), NaturalBob>> >>
        /\ messages[j + 1].type = "tool"
        /\ messages[j + 1].content = SUCCESS

\* C34: the digestion flags are monotonic: no step of the conversation takes
\* has_digested_confidentials or has_digested_concludes from true back to
\* false, and whatever update a node returned for a flag that is true, the
\* reducer (a logical OR of old and new) would keep it true
C34_FlagsMonotonic ==
    [][/\ has_digested_confidentials => has_digested_confidentials'
       /\ has_digested_concludes => has_digested_concludes'
       /\ \A b \in BOOLEAN :
           /\ merge_has_digested(has_digested_confidentials, b) =
                  (has_digested_confidentials \/ b)
           /\ merge_has_digested(has_digested_concludes, b) =
                  (has_digested_concludes \/ b)
           /\ has_digested_confidentials =>
                  merge_has_digested(has_digested_confidentials, b)
           /\ has_digested_concludes =>
                  merge_has_digested(has_digested_concludes, b)]_vars

\* both flags are set and the conversation has gone on to a later round
C34_Witness ==
    /\ has_digested_confidentials
    /\ has_digested_concludes
    /\ call = "go"
    /\ pc = "think"
    /\ messages # <<>>
    /\ LastMessage(messages).type = "human"

\* the positions of the think-synthesized system prompt in a log
SystemPromptsIn(msgs) ==
    {i \in 1..Len(msgs) :
        msgs[i].type = "system" /\ msgs[i].kind = "system-prompt"}

\* C35: in the persisted message log (which is the transcript every later
\* chat model invocation receives) the think-synthesized system prompt is the
\* first message, before every user, assistant and tool message
C35_SystemPromptFirst ==
    SystemPromptsIn(messages) # {} => 1 \in SystemPromptsIn(messages)

\* the same, for the conversations whose first go() carried no user input
C35_SystemPromptFirstWithoutInput ==
    (SystemPromptsIn(messages) # {} /\ messages[1].type # "human")
        => 1 \in SystemPromptsIn(messages)

\* think is about to invoke the chat model
ThinkAboutToInvoke ==
    /\ call = "go"
    /\ pc = "think"
    /\ ~StateInterviewBad(interview)
    /\ nLLM < MaxLLM

\* the invocation think is about to make can be answered with a tool call
ThinkCanBeAnsweredWithToolCall ==
    ENABLED (Think /\ LastMessage(messages').calls # <<>>)

\* the last message of the log is a system message or a tool result whose
\* content is exactly 'Success'
LastIsSystemOrSuccess ==
    /\ messages # <<>>
    /\ \/ LastMessage(messages).type = "system"
       \/ /\ LastMessage(messages).type = "tool"
          /\ LastMessage(messages).content = SUCCESS

\* the messages after position i were all added by digestion steps: an
\* instruction (a system message) or the reply to one
OnlyDigestionSince(i) ==
    \A j \in (i + 1)..Len(messages) :
        \/ messages[j].type = "system"
        \/ messages[j].type = "ai" /\ messages[j - 1].type = "system"

\* no think has run since the last tools step, and that step was successful
AfterSuccessfulTools ==
    \E i \in 1..Len(messages) :
        /\ messages[i].type = "tool"
        /\ messages[i].content = SUCCESS
        /\ i > 1
        /\ messages[i - 1].type = "ai"
        /\ OnlyDigestionSince(i)

\* C36: think invokes the chat model with no tool bound exactly when the last
\* message of the log is a system message or a tool result whose content is
\* exactly 'Success'; with an empty log, a user message, an assistant message
\* or an error tool result it binds the update tool. A think that runs on a
\* log ending in a successful tool result cannot be answered with a tool call.
C36_ThinkBinding ==
    ThinkAboutToInvoke =>
        /\ ThinkCanBeAnsweredWithToolCall <=> ~LastIsSystemOrSuccess
        /\ messages = <<>> => ThinkCanBeAnsweredWithToolCall
        /\ (messages # <<>> /\ LastMessage(messages).type \in {"human", "ai"})
               => ThinkCanBeAnsweredWithToolCall
        /\ (messages # <<>> /\ LastMessage(messages).type = "tool"
                /\ LastMessage(messages).content = ERROR)
               => ThinkCanBeAnsweredWithToolCall

\* think has answered a log that ended in a successful tool result
C36_Witness ==
    /\ call = "go"
    /\ pc = "listen"
    /\ Len(messages) >= 2
    /\ messages[Len(messages) - 1].type = "tool"
    /\ messages[Len(messages) - 1].content = SUCCESS
    /\ LastMessage(messages).type = "ai"
    /\ LastMessage(messages).calls = <<>>

\* C36 as stated: after a fully successful tools step the next think cannot
\* be answered with a tool call
C36_AsStated ==
    (ThinkAboutToInvoke /\ AfterSuccessfulTools)
        => ~ThinkCanBeAnsweredWithToolCall

\* C37: whenever the tools step runs, the last message of the log is an
\* assistant message with at least one tool call, and whenever listen runs
\* (first run or re-run on resume) the last message is an assistant message,
\* whatever the chat model returns
C37_EntryGuardsHold ==
    /\ (call = "go" /\ pc = "tools") =>
           /\ messages # <<>>
           /\ LastMessage(messages).type = "ai"
           /\ LastMessage(messages).calls # <<>>
           /\ ~tools(interview, messages).raised
    /\ (call = "go" /\ pc = "listen") =>
           /\ messages # <<>>
           /\ LastMessage(messages).type = "ai"

\* tools is about to run on the chat model's answer to a digestion
\* instruction, after a round that already passed through listen
C37_Witness ==
    /\ call = "go"
    /\ pc = "tools"
    /\ Len(messages) >= 2
    /\ messages[Len(messages) - 1].type = "system"
    /\ LastMessage(messages).calls # <<>>
    /\ \E i \in 1..Len(messages) : messages[i].type = "human"

\* a tool call whose first entry is a value for the normal field, whose
\* second entry names no field of the interview and whose third entry is a
\* value for the confidential field
PartialArgs ==
    << <<encode_field_name(F_NORMAL), NaturalAlice>>,
       <<UnknownKey, NaturalAlice>>,
       <<encode_field_name(F_CONFIDENTIAL), NaturalBob>> >>

\* the tool calls that get as far as writing the confidential field
WritesOfConfidential ==
    {i \in 1..Len(GivenCalls) :
        GivenCalls[i].args =
            << <<encode_field_name(F_NORMAL), PyNone>>,
               <<encode_field_name(F_CONFIDENTIAL), NaturalBob>> >>}

\* C38: a tool call is not applied atomically: when its k-th entry raises,
\* the entries before it stay written in the interview, the entries after it
\* are not applied, the tool result of the call is an error, and the fields
\* already written are carried into the conversation state
C38_ToolCallNotAtomic ==
    (tphase = "done" /\ GivenCalls # <<>>) =>
        \A i \in 1..Len(GivenCalls) :
            GivenCalls[i].args = PartialArgs =>
                /\ ~tres.raised
                /\ tres.out[i].content = ERROR
                /\ LastWriteOfNormal = i =>
                       tres.iv.fields[F_NORMAL] = NaturalAlice
                /\ WritesOfConfidential = {} =>
                       tres.iv.fields[F_CONFIDENTIAL] =
                           tiv.fields[F_CONFIDENTIAL]
                /\ tres.iv # tiv => tres.update

\* one such call on an interview whose normal field was null: the field is
\* written, the confidential field is not, the result is an error and the
\* interview is part of the state update
C38_Witness ==
    /\ tphase = "done"
    /\ Len(GivenCalls) = 1
    /\ GivenCalls[1].args = PartialArgs
    /\ tiv.fields[F_NORMAL] = PyNone
    /\ tres.out[1].content = ERROR
    /\ tres.iv.fields[F_NORMAL] = NaturalAlice
    /\ tres.iv.fields[F_CONFIDENTIAL] = tiv.fields[F_CONFIDENTIAL]
    /\ tres.iv.fields[F_CONFIDENTIAL] # NaturalBob
    /\ tres.update

\* a is an object of a proper subclass of b's class
MoreSpecific(a_type, b_type) == a_type # b_type /\ b_type = "Interview"

\* C39: merge_interviews never builds a combined snapshot: whenever it
\* returns, the result is one of its inputs, a when the two stores are
\* identical or a is of the more specific class, otherwise b; so
\* merge_interviews(a, a) = a, and for two objects of one class in which a
\* holds a populated field that b has as null it raises rather than carry
\* that field into the result
C39_ResultIsAnInput ==
    mphase = "merged" =>
        /\ mres.ok => mres.val \in {ma, mb}
        /\ mres.ok =>
               mres.val = (IF ma = mb \/ MoreSpecific(mta, mtb) THEN ma
                           ELSE mb)
        /\ (mta = mtb /\ ma = mb) => mres = MergeOk(ma)
        /\ \A f \in FieldPool :
               (/\ mta = mtb
                /\ ma.fields[f].t = "dict"
                /\ mb.fields[f].t = "none") => ~mres.ok

\* the second snapshot adds a field value and a trait to the first, and the
\* reducer returned the second one as it is
C39_Witness ==
    /\ mphase = "merged"
    /\ mta = mtb
    /\ ma.fields[F_NORMAL] = PyNone
    /\ mb.fields[F_NORMAL] = NaturalAlice
    /\ ma.traits = {}
    /\ mb.traits = {"kind"}
    /\ mres = MergeOk(mb)
    /\ mres.val # ma

\* the digestion steps that have not run yet
DigestionsLeft ==
    (IF has_digested_confidentials THEN 0 ELSE 1)
    + (IF has_digested_concludes THEN 0 ELSE 1)

\* how far the node about to run is from the suspension, within one stretch
\* between digestions
StepsToListen ==
    IF pc = "initialize" THEN 8
    ELSE IF pc = "listen" /\ resuming THEN 8
    ELSE IF pc = "think" /\ ~LastIsSystemOrSuccess THEN 7
    ELSE IF pc = "tools" THEN 6
    ELSE IF pc \in {"digest_confidentials", "digest_concludes"} THEN 5
    ELSE IF pc = "think" THEN 2
    ELSE IF pc = "listen" THEN 1
    ELSE 0

\* a measure of the work left in the go() round in progress
RoundMeasure ==
    IF call = "go" THEN 1 + 10 * DigestionsLeft + StepsToListen ELSE 0

\* the tools step ends on an error result and hands back to think
ErrorLoopStep ==
    /\ pc = "tools"
    /\ pc' = "think"
    /\ LastMessage(messages').type = "tool"
    /\ LastMessage(messages').content = ERROR

\* the nodes a go() round can be at, and the end of the stream
RoundNodes ==
    {"initialize", "think", "tools", "digest_confidentials",
     "digest_concludes", "listen", "interrupted"}

\* C40: every go() round terminates at listen: each internal step of a round
\* strictly lowers a bounded measure of the work left, except a tools step
\* that hands an error result back to think (the only cycle that can repeat,
\* for as long as the chat model keeps emitting failing tool calls); a round
\* in progress is always at a node of the graph, and a round that returns has
\* suspended at listen
C40_RoundTerminates ==
    /\ [][call = "go" => (RoundMeasure' < RoundMeasure \/ ErrorLoopStep)]_vars
    /\ [][(call = "go" /\ call' = "none" /\ ret'.kind = "returned")
              => (pc = "interrupted" /\ pc' = "listen")]_vars
    /\ [](call = "go" => (pc \in RoundNodes /\ RoundMeasure \in 1..29))

\* a round that went twice through think -> tools -> think on error results
\* and then suspended at listen
C40_Witness ==
    /\ Suspended
    /\ \E i \in 1..Len(messages) :
        /\ i + 4 <= Len(messages)
        /\ messages[i].type = "ai"
        /\ messages[i + 1].type = "tool"
        /\ messages[i + 1].content = ERROR
        /\ messages[i + 2].type = "ai"
        /\ messages[i + 3].type = "tool"
        /\ messages[i + 3].content = ERROR
        /\ messages[i + 4].type = "ai"
        /\ messages[i + 4].calls = <<>>

====
